---- MODULE Spec2Model ----
(***************************************************************************)
(* GraphLM: dual-index ingestion (addPDFSource / addGithubSource), the     *)
(* detached graph build (buildPDFGraph / buildGithubRepoGraph), the graph  *)
(* retriever (fetchGraphFacts) and the delete and status handlers          *)
(* (deleteSource, deleteDocument, getSourceStatus).                        *)
(*                                                                         *)
(* One ingestion request is modelled: a request handler touches only the   *)
(* rows keyed by the _id of the source it created, so requests for         *)
(* different sources share no mutable state.                               *)
(***************************************************************************)
EXTENDS Integers, Sequences, FiniteSets, TLC

VARIABLES
  kind,               \* "none" | "pdf" | "github_repo": the controller serving the request
  pc,                 \* position of the request handler
  srcStatus,          \* Source.status of the row in the metadata store ("none": no row)
  docStatus,          \* source.status of the in-memory document held by the handler
  vim,                \* a VectorIndexMetadata row exists
  collection,         \* the vector collection source_<id> / github_<id> exists
  gmeta,              \* GraphMetadata rows: <<>> or <<[entityCount, relationCount]>>
  response,           \* HTTP response of the request: <<>> or <<[code, status]>>
  docs,               \* vectorIndexResult.splitDocs: sequence of chunks
  vectorResult,       \* "none" | "ok" | "failed": how indexPDFSource / indexGithubSource ended
  loadResult,         \* "none" | "ok" | "failed": how loadAndPreparePDF / ...GithubRepo ended
  bpc,                \* position of the detached graph build
  buildOutcome,       \* "none" | "returned" | "threw": how build*Graph ended
  jobError,           \* a job-level (not per-chunk) step of the detached job failed
  conn,               \* neo4jGraph connection: "none" | "open" | "closed"
  task,               \* chunk tasks handed to the limiter
  totalNodes,         \* let totalNodes
  totalRelationships, \* let totalRelationships
  filesProcessed,     \* const filesProcessed = new Set()
  gnodes,             \* graph store: nodes
  gedges,             \* graph store: relationships
  mergedKeys,         \* entity names whose MERGE query completed
  relMerged,          \* relationship keys whose MERGE query completed
  relMatched,         \* relationship keys merged while both endpoint entities existed
  failWrite,          \* "none" | "ok" | "failed": the write of status "failed"
  chunkFaults,        \* extraction / persistence calls of chunk tasks that raised
  fin,                \* fetchGraphFacts: arguments
  fpc,                \* fetchGraphFacts: position
  safeHopDepth,       \* fetchGraphFacts: const safeHopDepth
  sessions,           \* fetchGraphFacts: sessions opened / queries run
  facts,              \* fetchGraphFacts: returned facts
  dreq,               \* delete / status request: <<>> or [handler, owned]
  dpc,                \* delete / status request: position of the handler
  dread,              \* delete: the metadata rows the handler read, [vm, gm]
  dresp,              \* delete / status request: <<>> or <<response>>
  dclean,             \* delete: state of the two external cleanups, [vector, graph]
  rowFault,           \* delete / status request: a metadata-store call raised
  csources,           \* ChatSession.sources of the stored chat session
  cmsgs,              \* number of ChatMessage rows of the chat
  ctitle,             \* ChatSession.title of the stored chat session
  upd,                \* updateChatSession: <<>> or [pc, body, loaded, merged, resp]
  snd                 \* sendMessage: <<>> or [pc, resp]

ingestVars == <<kind, pc, srcStatus, docStatus, vim, collection, gmeta, response, docs,
               vectorResult, loadResult>>
buildVars  == <<bpc, buildOutcome, jobError, conn, task, totalNodes, totalRelationships,
                filesProcessed, mergedKeys, relMerged, relMatched, failWrite,
               chunkFaults>>
storeVars  == <<gnodes, gedges>>
fetchVars  == <<fin, fpc, safeHopDepth, sessions, facts>>
deleteVars == <<dreq, dpc, dread, dresp, dclean, rowFault>>
chatVars   == <<csources, cmsgs, ctitle, upd, snd>>
vars == <<ingestVars, buildVars, storeVars, fetchVars, deleteVars, chatVars>>

(***************************************************************************)
(* Bounds                                                                  *)
(***************************************************************************)
MaxChunks == 4
MaxChunkFaults == 1   \* calls of chunk tasks that raise, per build

SID == "s1"          \* source._id.toString() of the source of the request

(***************************************************************************)
(* Chunks and the extraction service.  A chunk carries metadata.path and   *)
(* the graph document the extraction service returns for its text (the     *)
(* service is a black box; that it can also raise is a choice of the       *)
(* Extract action).                                                        *)
(***************************************************************************)
Node(id, type) == [id |-> id, type |-> type]
Rel(s, t, type) == [source |-> s, target |-> t, type |-> type]

ChunkPool ==
  << [path |-> "f1", nodes |-> <<Node("A", "Class"), Node("B", "Module")>>,
                     rels  |-> <<Rel("A", "B", "uses")>>],
     [path |-> "f1", nodes |-> <<Node("A", "Concept")>>,
                     rels  |-> <<Rel("A", "B", "uses"), Rel("B", "C", "depends on")>>],
     [path |-> "f2", nodes |-> <<Node("", "Class"), Node("D", "Module")>>,
                     rels  |-> <<Rel("B", "C", "depends on"), Rel("B", "", "uses")>>],
     [path |-> "f2", nodes |-> <<Node("D", "")>>,
                     rels  |-> <<Rel("A", "B", "uses")>>],
     [path |-> "f2", nodes |-> <<>>, rels |-> <<>>] >>

\* the chunk lists vector indexing can hand over: the first n pool chunks (cyclically)
DocsOf(n) == [i \in 1..n |-> ChunkPool[((i - 1) % Len(ChunkPool)) + 1]]

\* graphDoc.nodes.filter((node) => node.id && node.type)
normalizedNodes(chunk) ==
  SelectSeq(chunk.nodes, LAMBDA n : n.id # "" /\ n.type # "")

\* graphDoc.relationships.filter((rel) => rel.type && rel.source?.id && rel.target?.id)
normalizedRelationships(chunk) ==
  SelectSeq(chunk.rels, LAMBDA r : r.type # "" /\ r.source # "" /\ r.target # "")

\* rel.type.toUpperCase().replace(/\s+/g, "_")
relTypeOf(t) ==
  CASE t = "uses" -> "USES"
    [] t = "depends on" -> "DEPENDS_ON"
    [] OTHER -> t

(***************************************************************************)
(* Request path of addPDFSource / addGithubSource                          *)
(***************************************************************************)
Kinds == {"pdf", "github_repo"}

\* source.status = "indexing" (the value written once vector indexing succeeded)
StatusOnVectorOk == "indexing"

\* req.file?.path / repoUrl checks, before the try block
ReqValidate ==
  /\ pc = "idle"
  /\ \E k \in Kinds, valid \in BOOLEAN :
       /\ kind' = k
       /\ IF valid
            THEN pc' = "create" /\ response' = response
            ELSE pc' = "finished" /\ response' = <<[code |-> 400, status |-> "error"]>>
  /\ UNCHANGED <<srcStatus, docStatus, vim, collection, gmeta, docs, vectorResult, loadResult>>
  /\ UNCHANGED <<buildVars, storeVars, fetchVars, deleteVars, chatVars>>

\* source = await Source.create({... status: "uploaded" ...})
ReqCreateSource ==
  /\ pc = "create"
  /\ \/ /\ srcStatus' = "uploaded"
        /\ docStatus' = "uploaded"
        /\ pc' = "vector"
     \/ /\ pc' = "catch"
        /\ UNCHANGED <<srcStatus, docStatus>>
  /\ UNCHANGED <<kind, vim, collection, gmeta, response, docs, vectorResult, loadResult>>
  /\ UNCHANGED <<buildVars, storeVars, fetchVars, deleteVars, chatVars>>
\* variant: an error of vector indexing is swallowed and the handler goes on
ReqVectorIndex_Swallow ==
  /\ pc = "vector"
  /\ \/ \E n \in 1..MaxChunks :
          /\ docs' = DocsOf(n)
          /\ collection' = TRUE
          /\ vectorResult' = "ok"
          /\ loadResult' = "ok"
     \/ /\ vectorResult' = "failed"
        /\ loadResult' \in {"ok", "failed"}
        /\ docs' = docs
        /\ collection' = collection
  /\ pc' = "vim"
  /\ UNCHANGED <<kind, srcStatus, docStatus, vim, gmeta, response>>
  /\ UNCHANGED <<buildVars, storeVars, fetchVars, deleteVars, chatVars>>

\* vectorIndexResult = await indexPDFSource(...) / indexGithubSource(...):
\* load and split (an unreadable or empty input, or an empty chunk list,
\* raises before anything is indexed), then indexToVectorStore
ReqVectorIndex ==
  /\ pc = "vector"
  /\ \/ \E n \in 1..MaxChunks :
          /\ docs' = DocsOf(n)
          /\ collection' = TRUE
          /\ vectorResult' = "ok"
          /\ loadResult' = "ok"
          /\ pc' = "vim"
     \/ /\ loadResult' = "failed"
        /\ vectorResult' = "failed"
        /\ pc' = "catch"
        /\ UNCHANGED <<docs, collection>>
     \/ \E partial \in BOOLEAN :
          /\ collection' = partial
          /\ loadResult' = "ok"
          /\ vectorResult' = "failed"
          /\ pc' = "catch"
          /\ docs' = docs
  /\ UNCHANGED <<kind, srcStatus, docStatus, vim, gmeta, response>>
  /\ UNCHANGED <<buildVars, storeVars, fetchVars, deleteVars, chatVars>>
\* variant: a failed VectorIndexMetadata.create does not stop the handler
ReqCreateVim_Swallow ==
  /\ pc = "vim"
  /\ \/ vim' = TRUE
     \/ vim' = vim
  /\ pc' = "save"
  /\ UNCHANGED <<kind, srcStatus, docStatus, collection, gmeta, response, docs, vectorResult, loadResult>>
  /\ UNCHANGED <<buildVars, storeVars, fetchVars, deleteVars, chatVars>>

\* await VectorIndexMetadata.create({...})
ReqCreateVim ==
  /\ pc = "vim"
  /\ \/ vim' = TRUE /\ pc' = "save"
     \/ vim' = vim /\ pc' = "catch"
  /\ UNCHANGED <<kind, srcStatus, docStatus, collection, gmeta, response, docs, vectorResult, loadResult>>
  /\ UNCHANGED <<buildVars, storeVars, fetchVars, deleteVars, chatVars>>

\* source.status = "indexing"; await source.save();
ReqSaveIndexing ==
  /\ pc = "save"
  /\ docStatus' = StatusOnVectorOk
  /\ \/ /\ srcStatus' = (IF srcStatus = "none" THEN "none" ELSE StatusOnVectorOk)
        /\ pc' = (IF kind = "pdf" THEN "cloud" ELSE "spawn")
     \/ /\ srcStatus' = srcStatus
        /\ pc' = "catch"
  /\ UNCHANGED <<kind, vim, collection, gmeta, response, docs, vectorResult, loadResult>>
  /\ UNCHANGED <<buildVars, storeVars, fetchVars, deleteVars, chatVars>>

\* addPDFSource only: uploadOnCloudinary (null or a throw is an error)
ReqCloudinary ==
  /\ pc = "cloud"
  /\ \/ pc' = "saveurl"
     \/ pc' = "catch"
  /\ UNCHANGED <<kind, srcStatus, docStatus, vim, collection, gmeta, response, docs, vectorResult, loadResult>>
  /\ UNCHANGED <<buildVars, storeVars, fetchVars, deleteVars, chatVars>>

\* addPDFSource only: source.file.url = ...; await source.save();
ReqSaveUrl ==
  /\ pc = "saveurl"
  /\ \/ pc' = "spawn"
     \/ pc' = "catch"
  /\ UNCHANGED <<kind, srcStatus, docStatus, vim, collection, gmeta, response, docs, vectorResult, loadResult>>
  /\ UNCHANGED <<buildVars, storeVars, fetchVars, deleteVars, chatVars>>

\* (async () => { ... await build*Graph(...) ... })(); return res.status(202).json(...)
\* The detached job runs synchronously up to the first await inside
\* build*Graph (input validation), then the handler sends the response.
ReqSpawnAndRespond ==
  /\ pc = "spawn"
  /\ IF Len(docs) = 0
       THEN bpc' = "catch" /\ buildOutcome' = "threw" /\ jobError' = TRUE
       ELSE bpc' = "init" /\ UNCHANGED <<buildOutcome, jobError>>
  /\ response' = <<[code |-> 202, status |-> docStatus]>>
  /\ pc' = "finished"
  /\ UNCHANGED <<kind, srcStatus, docStatus, vim, collection, gmeta, docs, vectorResult, loadResult>>
  /\ UNCHANGED <<conn, task, totalNodes, totalRelationships, filesProcessed,
                 mergedKeys, relMerged, relMatched, failWrite, chunkFaults>>
  /\ UNCHANGED <<storeVars, fetchVars, deleteVars, chatVars>>

\* catch (error): if (source && source._id)
\*   await Source.findByIdAndUpdate(source._id, {status: "failed"}).catch(log)
ReqCatchMarkFailed ==
  /\ pc = "catch"
  /\ IF srcStatus = "none"
       THEN UNCHANGED <<srcStatus, failWrite>>
       ELSE \/ srcStatus' = "failed" /\ failWrite' = "ok"
            \/ srcStatus' = srcStatus /\ failWrite' = "failed"
  /\ pc' = "rethrow"
  /\ UNCHANGED <<kind, docStatus, vim, collection, gmeta, response, docs, vectorResult, loadResult>>
  /\ UNCHANGED <<bpc, buildOutcome, jobError, conn, task, totalNodes, totalRelationships,
                 filesProcessed, mergedKeys, relMerged, relMatched, chunkFaults>>
  /\ UNCHANGED <<storeVars, fetchVars, deleteVars, chatVars>>

\* throw error / throw new ApiError(500, ...): asyncHandler answers with the error
ReqRethrow ==
  /\ pc = "rethrow"
  /\ response' = <<[code |-> 500, status |-> "error"]>>
  /\ pc' = "finished"
  /\ UNCHANGED <<kind, srcStatus, docStatus, vim, collection, gmeta, docs, vectorResult, loadResult>>
  /\ UNCHANGED <<buildVars, storeVars, fetchVars, deleteVars, chatVars>>

(***************************************************************************)
(* Graph store.  Nodes are [id, label, key, sourceId, type], the internal   *)
(* id being <<label, key, sourceId, copy>>; an edge is [from, to, type, k]  *)
(* with k numbering parallel edges.  Every query runs                      *)
(* in its own auto-commit transaction.  MERGE of a single-node pattern     *)
(* takes no lock when nothing matches (no uniqueness constraint is         *)
(* declared anywhere), so a transaction that matched before a concurrent   *)
(* creation committed creates a second node; MERGE of a relationship       *)
(* between bound nodes locks both nodes and cannot duplicate.              *)
(***************************************************************************)
\* variant: the entity is matched on its name alone
EntityNodes_AnySource(nodes, name, sid) ==
  {n \in nodes : n.label = "Entity" /\ n.key = name}

EntityNodes(nodes, name, sid) ==
  {n \in nodes : n.label = "Entity" /\ n.key = name /\ n.sourceId = sid}

FileNodes(nodes, path, sid) ==
  {n \in nodes : n.label = "File" /\ n.key = path /\ n.sourceId = sid}

SourceNodes(nodes, sid) ==
  {n \in nodes : n.label = "Source" /\ n.key = sid}

\* what the MATCH half of a node MERGE can have seen, for a query issued
\* when `seenAtIssue` held and completing when `existsNow` holds
SeenChoices(seenAtIssue, existsNow) ==
  IF ~existsNow THEN {FALSE}
  ELSE IF seenAtIssue THEN {TRUE}
  ELSE {TRUE, FALSE}

\* variant: the node is created without the sourceId property
MergeNode_Unscoped(nodes, label, key, sid, type, sawIt) ==
  LET same == {n \in nodes : n.label = label /\ n.key = key /\ n.sourceId = sid} IN
  IF sawIt
    THEN (nodes \ same) \cup {[n EXCEPT !.type = type] : n \in same}
    ELSE nodes \cup {[id |-> <<label, key, sid, Cardinality(same) + 1>>, label |-> label,
                      key |-> key, sourceId |-> "", type |-> type]}

\* variant: the pattern of the MERGE holds the key alone
MergeNode_ByName(nodes, label, key, sid, type, sawIt) ==
  LET same == {n \in nodes : n.label = label /\ n.key = key} IN
  IF sawIt
    THEN (nodes \ same) \cup {[n EXCEPT !.type = type] : n \in same}
    ELSE nodes \cup {[id |-> <<label, key, sid, Cardinality(same) + 1>>, label |-> label,
                      key |-> key, sourceId |-> sid, type |-> type]}

\* MERGE (n:label {key, sourceId}) SET n.type = type
MergeNode(nodes, label, key, sid, type, sawIt) ==
  LET same == {n \in nodes : n.label = label /\ n.key = key /\ n.sourceId = sid} IN
  IF sawIt
    THEN (nodes \ same) \cup {[n EXCEPT !.type = type] : n \in same}
    ELSE nodes \cup {[id |-> <<label, key, sid, Cardinality(same) + 1>>, label |-> label,
                      key |-> key, sourceId |-> sid, type |-> type]}
\* variant: CREATE (a)-[:type]->(b) instead of MERGE
MergeEdges_Create(edges, froms, tos, type) ==
  edges \cup
  {[from |-> p[1].id, to |-> p[2].id, type |-> type,
    k |-> 1 + Cardinality({e \in edges : e.from = p[1].id /\ e.to = p[2].id /\ e.type = type})] :
     p \in froms \X tos}

\* MATCH (a ...) MATCH (b ...) MERGE (a)-[:type]->(b)
MergeEdges(edges, froms, tos, type) ==
  edges \cup
  {[from |-> p[1].id, to |-> p[2].id, type |-> type, k |-> 1] :
     p \in {q \in froms \X tos :
              ~\E e \in edges : e.from = q[1].id /\ e.to = q[2].id /\ e.type = type}}

(***************************************************************************)
(* buildPDFGraph / buildGithubRepoGraph                                    *)
(***************************************************************************)
Concurrency == 3

QueuedTask == [st |-> "queued", ni |-> 0, ri |-> 0, seen |-> FALSE, outcome |-> "none"]

Active(tk) == Cardinality({i \in DOMAIN tk : tk[i].st \notin {"queued", "done"}})
\* variant: every task is started at once
LimitAdmits_Unbounded(tk) == TRUE
\* variant: one task at a time
LimitAdmits_Serial(tk) == Active(tk) < 1

\* const limit = pLimit(concurrency): a queued task is started while fewer
\* than `concurrency` tasks are running
LimitAdmits(tk) == Active(tk) < Concurrency

\* the synchronous head of a chunk task, up to its first await
StartTask(i, fp, nodes) ==
  IF kind = "github_repo" /\ docs[i].path \notin fp
    THEN [QueuedTask EXCEPT !.st = "file",
                            !.seen = (FileNodes(nodes, docs[i].path, SID) # {})]
    ELSE [QueuedTask EXCEPT !.st = "extract"]

\* the limiter starts queued tasks in submission order
RECURSIVE Dequeue(_, _, _)
Dequeue(tk, fp, nodes) ==
  LET queued == {j \in DOMAIN tk : tk[j].st = "queued"} IN
  IF queued # {} /\ LimitAdmits(tk)
    THEN LET j == CHOOSE x \in queued : \A y \in queued : x <= y
         IN Dequeue([tk EXCEPT ![j] = StartTask(j, fp, nodes)], fp, nodes)
    ELSE tk

\* the end of a chunk task: its slot is handed to the next queued task
Finished(t, outcome) == [t EXCEPT !.st = "done", !.seen = FALSE, !.outcome = outcome]

\* where a chunk task goes once node number t.ni has been persisted
AfterNode(i, t, nodes) ==
  LET nn == normalizedNodes(docs[i])
      nr == normalizedRelationships(docs[i])
  IN IF t.ni < Len(nn)
       THEN [t EXCEPT !.st = "entity",
                      !.seen = (EntityNodes(nodes, nn[t.ni + 1].id, SID) # {})]
       ELSE IF Len(nr) > 0 THEN [t EXCEPT !.st = "rel", !.seen = FALSE]
       ELSE Finished(t, "ok")
\* variant: no try/catch in the chunk task, the error rejects Promise.all
ChunkCatch_Propagate(i, outcome) ==
  /\ chunkFaults < MaxChunkFaults
  /\ chunkFaults' = chunkFaults + 1
  /\ task' = [task EXCEPT ![i] = Finished(task[i], outcome)]
  /\ bpc' = "closing"
  /\ buildOutcome' = "threw"
  /\ UNCHANGED <<relMatched, failWrite, jobError, conn, totalNodes, totalRelationships,
                 filesProcessed, mergedKeys, relMerged, storeVars>>

\* variant: the catch block calls the extraction of the chunk again
ChunkCatch_Retry(i, outcome) ==
  /\ chunkFaults < MaxChunkFaults
  /\ chunkFaults' = chunkFaults + 1
  /\ task' = [task EXCEPT ![i] = [QueuedTask EXCEPT !.st = "extract"]]
  /\ UNCHANGED <<relMatched, failWrite, bpc, buildOutcome, jobError, conn, totalNodes, totalRelationships,
                 filesProcessed, mergedKeys, relMerged, storeVars>>

\* catch (error) { console.error(...) } inside the chunk task
ChunkCatch(i, outcome) ==
  /\ chunkFaults < MaxChunkFaults
  /\ chunkFaults' = chunkFaults + 1
  /\ task' = Dequeue([task EXCEPT ![i] = Finished(task[i], outcome)], filesProcessed, gnodes)
  /\ UNCHANGED <<relMatched, failWrite, bpc, buildOutcome, jobError, conn, totalNodes, totalRelationships,
                 filesProcessed, mergedKeys, relMerged, storeVars>>

\* neo4jGraph = await Neo4jGraph.initialize({...})
BuildInit ==
  /\ bpc = "init"
  /\ \/ /\ conn' = "open"
        /\ bpc' = "srcnode"
        /\ UNCHANGED <<buildOutcome, jobError>>
     \/ /\ bpc' = "catch"
        /\ buildOutcome' = "threw"
        /\ jobError' = TRUE
        /\ conn' = conn
  /\ UNCHANGED <<task, totalNodes, totalRelationships, filesProcessed, mergedKeys, relMerged, relMatched, failWrite, chunkFaults>>
  /\ UNCHANGED <<ingestVars, storeVars, fetchVars, deleteVars, chatVars>>

\* MERGE (s:Source {id: $sourceId}) SET s.sourceType = ...; then
\* docs.map((doc) => limit(async () => {...}))
BuildSourceNode ==
  /\ bpc = "srcnode"
  /\ \/ /\ gnodes' = MergeNode(gnodes, "Source", SID, "", kind,
                               SourceNodes(gnodes, SID) # {})
        /\ task' = Dequeue([i \in 1..Len(docs) |-> QueuedTask], {}, gnodes')
        /\ bpc' = "chunks"
        /\ UNCHANGED <<buildOutcome, jobError>>
     \/ /\ bpc' = "closing"
        /\ buildOutcome' = "threw"
        /\ jobError' = TRUE
        /\ UNCHANGED <<gnodes, task>>
  /\ UNCHANGED <<conn, totalNodes, totalRelationships, filesProcessed, mergedKeys,
                 relMerged, relMatched, failWrite, chunkFaults, gedges>>
  /\ UNCHANGED <<ingestVars, fetchVars, deleteVars, chatVars>>

\* buildGithubRepoGraph: MERGE (f:File {path, sourceId}) SET f.language, f.fileType
TaskFileMerge(i) ==
  /\ bpc = "chunks" /\ task[i].st = "file"
  /\ \/ \E sawIt \in SeenChoices(task[i].seen, FileNodes(gnodes, docs[i].path, SID) # {}) :
          /\ gnodes' = MergeNode(gnodes, "File", docs[i].path, SID, "code", sawIt)
          /\ task' = [task EXCEPT ![i].st = "hasfile", ![i].seen = FALSE]
          /\ UNCHANGED <<relMatched, failWrite, chunkFaults, bpc, buildOutcome, jobError, conn, totalNodes, totalRelationships,
                         filesProcessed, mergedKeys, relMerged, gedges>>
     \/ ChunkCatch(i, "persistFailed")
  /\ UNCHANGED <<ingestVars, fetchVars, deleteVars, chatVars>>

\* buildGithubRepoGraph: MERGE (s)-[:HAS_FILE]->(f); filesProcessed.add(filePath);
\* then the extraction call is issued
TaskHasFile(i) ==
  /\ bpc = "chunks" /\ task[i].st = "hasfile"
  /\ \/ /\ gedges' = MergeEdges(gedges, SourceNodes(gnodes, SID),
                                FileNodes(gnodes, docs[i].path, SID), "HAS_FILE")
        /\ filesProcessed' = filesProcessed \cup {docs[i].path}
        /\ task' = [task EXCEPT ![i].st = "extract"]
        /\ UNCHANGED <<relMatched, failWrite, chunkFaults, bpc, buildOutcome, jobError, conn, totalNodes, totalRelationships,
                       mergedKeys, relMerged, gnodes>>
     \/ ChunkCatch(i, "persistFailed")
  /\ UNCHANGED <<ingestVars, fetchVars, deleteVars, chatVars>>

\* const graphDocs = await graphTransformer.convertToGraphDocuments([doc]);
\* normalisation; if (normalizedNodes.length > 0) the first entity MERGE is issued
TaskExtract(i) ==
  /\ bpc = "chunks" /\ task[i].st = "extract"
  /\ \/ /\ task' = LET t == AfterNode(i, task[i], gnodes)
                   IN IF Len(normalizedNodes(docs[i])) = 0
                        THEN Dequeue([task EXCEPT ![i] = Finished(task[i], "ok")],
                                     filesProcessed, gnodes)
                        ELSE [task EXCEPT ![i] = t]
        /\ UNCHANGED <<relMatched, failWrite, chunkFaults, bpc, buildOutcome, jobError, conn, totalNodes, totalRelationships,
                       filesProcessed, mergedKeys, relMerged, storeVars>>
     \/ ChunkCatch(i, "extractFailed")
  /\ UNCHANGED <<ingestVars, fetchVars, deleteVars, chatVars>>

\* MERGE (e:Entity {name, sourceId}) SET e.type = $type
\* buildPDFGraph: totalNodes++ follows; buildGithubRepoGraph: the MENTIONS query follows
TaskEntityMerge(i) ==
  /\ bpc = "chunks" /\ task[i].st = "entity"
  /\ LET node == normalizedNodes(docs[i])[task[i].ni + 1] IN
     \/ \E sawIt \in SeenChoices(task[i].seen, EntityNodes(gnodes, node.id, SID) # {}) :
          /\ gnodes' = MergeNode(gnodes, "Entity", node.id, SID, node.type, sawIt)
          /\ mergedKeys' = mergedKeys \cup {node.id}
          /\ IF kind = "github_repo"
               THEN /\ task' = [task EXCEPT ![i].st = "mention", ![i].seen = FALSE]
                    /\ totalNodes' = totalNodes
               ELSE /\ totalNodes' = totalNodes + 1
                    /\ task' =
                         LET t == AfterNode(i, [task[i] EXCEPT !.ni = @ + 1], gnodes')
                         IN IF t.st = "done"
                              THEN Dequeue([task EXCEPT ![i] = t], filesProcessed, gnodes')
                              ELSE [task EXCEPT ![i] = t]
          /\ UNCHANGED <<relMatched, failWrite, chunkFaults, bpc, buildOutcome, jobError, conn, totalRelationships,
                         filesProcessed, relMerged, gedges>>
     \/ ChunkCatch(i, "persistFailed")
  /\ UNCHANGED <<ingestVars, fetchVars, deleteVars, chatVars>>

\* buildGithubRepoGraph: MERGE (f)-[:MENTIONS]->(e); totalNodes++
TaskMention(i) ==
  /\ bpc = "chunks" /\ task[i].st = "mention"
  /\ LET node == normalizedNodes(docs[i])[task[i].ni + 1] IN
     \/ /\ gedges' = MergeEdges(gedges, FileNodes(gnodes, docs[i].path, SID),
                                EntityNodes(gnodes, node.id, SID), "MENTIONS")
        /\ totalNodes' = totalNodes + 1
        /\ task' = LET t == AfterNode(i, [task[i] EXCEPT !.ni = @ + 1], gnodes)
                   IN IF t.st = "done"
                        THEN Dequeue([task EXCEPT ![i] = t], filesProcessed, gnodes)
                        ELSE [task EXCEPT ![i] = t]
        /\ UNCHANGED <<relMatched, failWrite, chunkFaults, bpc, buildOutcome, jobError, conn, totalRelationships,
                       filesProcessed, mergedKeys, relMerged, gnodes>>
     \/ ChunkCatch(i, "persistFailed")
  /\ UNCHANGED <<ingestVars, fetchVars, deleteVars, chatVars>>

\* MATCH (a:Entity {name: $fromName ...}) MATCH (b:Entity {name: $toName ...})
\* MERGE (a)-[r:TYPE]->(b); totalRelationships++
TaskRelMerge(i) ==
  /\ bpc = "chunks" /\ task[i].st = "rel"
  /\ LET rel == normalizedRelationships(docs[i])[task[i].ri + 1] IN
     \/ /\ gedges' = MergeEdges(gedges, EntityNodes(gnodes, rel.source, SID),
                                EntityNodes(gnodes, rel.target, SID), relTypeOf(rel.type))
        /\ relMerged' = relMerged \cup {<<rel.source, rel.target, relTypeOf(rel.type)>>}
        /\ relMatched' =
             IF EntityNodes(gnodes, rel.source, SID) # {} /\ EntityNodes(gnodes, rel.target, SID) # {}
               THEN relMatched \cup {<<rel.source, rel.target, relTypeOf(rel.type)>>}
               ELSE relMatched
        /\ totalRelationships' = totalRelationships + 1
        /\ task' = LET t == [task[i] EXCEPT !.ri = @ + 1]
                   IN IF t.ri < Len(normalizedRelationships(docs[i]))
                        THEN [task EXCEPT ![i] = t]
                        ELSE Dequeue([task EXCEPT ![i] = Finished(t, "ok")],
                                     filesProcessed, gnodes)
        /\ UNCHANGED <<failWrite, chunkFaults, bpc, buildOutcome, jobError, conn, totalNodes,
                       filesProcessed, mergedKeys, gnodes>>
     \/ ChunkCatch(i, "persistFailed")
  /\ UNCHANGED <<ingestVars, fetchVars, deleteVars, chatVars>>

AllTasksDone == \A i \in DOMAIN task : task[i].st = "done"

\* variant: the connection is closed without awaiting the chunk tasks
BuildClose_Early ==
  /\ bpc \in {"chunks", "closing"}
  /\ \/ /\ conn' = "closed"
        /\ IF bpc = "chunks"
             THEN bpc' = "returned" /\ buildOutcome' = "returned"
             ELSE bpc' = "catch" /\ buildOutcome' = buildOutcome
        /\ jobError' = jobError
     \/ /\ conn' = conn
        /\ bpc' = "catch"
        /\ buildOutcome' = "threw"
        /\ jobError' = TRUE
  /\ UNCHANGED <<task, totalNodes, totalRelationships, filesProcessed, mergedKeys, relMerged, relMatched, failWrite, chunkFaults>>
  /\ UNCHANGED <<ingestVars, storeVars, fetchVars, deleteVars, chatVars>>

\* await Promise.all(processingTasks); return {...}  (or the error of the
\* Source-node query); finally { await neo4jGraph.close() }
BuildClose ==
  /\ \/ bpc = "chunks" /\ AllTasksDone
     \/ bpc = "closing"
  /\ \/ /\ conn' = "closed"
        /\ IF bpc = "chunks"
             THEN bpc' = "returned" /\ buildOutcome' = "returned"
             ELSE bpc' = "catch" /\ buildOutcome' = buildOutcome
        /\ jobError' = jobError
     \/ /\ conn' = conn
        /\ bpc' = "catch"
        /\ buildOutcome' = "threw"
        /\ jobError' = TRUE
  /\ UNCHANGED <<task, totalNodes, totalRelationships, filesProcessed, mergedKeys, relMerged, relMatched, failWrite, chunkFaults>>
  /\ UNCHANGED <<ingestVars, storeVars, fetchVars, deleteVars, chatVars>>

(***************************************************************************)
(* The detached job around the build, in addPDFSource / addGithubSource    *)
(***************************************************************************)
\* variant: a failed GraphMetadata.create is ignored and the job goes on
JobCreateGraphMetadata_Skipped ==
  /\ bpc = "returned"
  /\ \/ gmeta' = <<[entityCount |-> totalNodes, relationCount |-> totalRelationships]>>
     \/ gmeta' = gmeta
  /\ bpc' = "mark"
  /\ jobError' = jobError
  /\ UNCHANGED <<kind, pc, srcStatus, docStatus, vim, collection, response, docs, vectorResult, loadResult>>
  /\ UNCHANGED <<buildOutcome, conn, task, totalNodes, totalRelationships, filesProcessed,
                 mergedKeys, relMerged, relMatched, failWrite, chunkFaults>>
  /\ UNCHANGED <<storeVars, fetchVars, deleteVars, chatVars>>

\* variant: the status indexed is written ahead of GraphMetadata.create
JobCreateGraphMetadata_MarkFirst ==
  /\ bpc = "returned"
  /\ srcStatus' = (IF srcStatus = "none" THEN "none" ELSE "indexed")
  /\ gmeta' = gmeta
  /\ bpc' = "mark"
  /\ jobError' = jobError
  /\ UNCHANGED <<kind, pc, docStatus, vim, collection, response, docs, vectorResult, loadResult>>
  /\ UNCHANGED <<buildOutcome, conn, task, totalNodes, totalRelationships, filesProcessed,
                 mergedKeys, relMerged, relMatched, failWrite, chunkFaults>>
  /\ UNCHANGED <<storeVars, fetchVars, deleteVars, chatVars>>

\* await GraphMetadata.create({entityCount: graphResult.nodesAdded, ...})
JobCreateGraphMetadata ==
  /\ bpc = "returned"
  /\ \/ /\ gmeta' = <<[entityCount |-> totalNodes, relationCount |-> totalRelationships]>>
        /\ bpc' = "mark"
        /\ jobError' = jobError
     \/ /\ gmeta' = gmeta
        /\ bpc' = "catch"
        /\ jobError' = TRUE
  /\ UNCHANGED <<kind, pc, srcStatus, docStatus, vim, collection, response, docs, vectorResult, loadResult>>
  /\ UNCHANGED <<buildOutcome, conn, task, totalNodes, totalRelationships, filesProcessed,
                 mergedKeys, relMerged, relMatched, failWrite, chunkFaults>>
  /\ UNCHANGED <<storeVars, fetchVars, deleteVars, chatVars>>
\* variant: the status write is applied but the call still raises
JobMarkIndexed_WriteThenThrow ==
  /\ bpc = "mark"
  /\ srcStatus' = (IF srcStatus = "none" THEN "none" ELSE "indexed")
  /\ bpc' = "catch"
  /\ jobError' = TRUE
  /\ UNCHANGED <<kind, pc, docStatus, vim, collection, gmeta, response, docs, vectorResult, loadResult>>
  /\ UNCHANGED <<buildOutcome, conn, task, totalNodes, totalRelationships, filesProcessed,
                 mergedKeys, relMerged, relMatched, failWrite, chunkFaults>>
  /\ UNCHANGED <<storeVars, fetchVars, deleteVars, chatVars>>

\* await Source.findByIdAndUpdate(source._id, { status: "indexed" })
JobMarkIndexed ==
  /\ bpc = "mark"
  /\ \/ /\ srcStatus' = (IF srcStatus = "none" THEN "none" ELSE "indexed")
        /\ bpc' = "done"
        /\ jobError' = jobError
     \/ /\ srcStatus' = srcStatus
        /\ bpc' = "catch"
        /\ jobError' = TRUE
  /\ UNCHANGED <<kind, pc, docStatus, vim, collection, gmeta, response, docs, vectorResult, loadResult>>
  /\ UNCHANGED <<buildOutcome, conn, task, totalNodes, totalRelationships, filesProcessed,
                 mergedKeys, relMerged, relMatched, failWrite, chunkFaults>>
  /\ UNCHANGED <<storeVars, fetchVars, deleteVars, chatVars>>
\* variant: the catch block rolls the vector index back
JobCatchMarkFailed_Rollback ==
  /\ bpc = "catch"
  /\ \/ /\ srcStatus' = (IF srcStatus = "none" THEN "none" ELSE "failed")
        /\ failWrite' = "ok"
     \/ /\ srcStatus' = srcStatus
        /\ failWrite' = "failed"
  /\ vim' = FALSE
  /\ collection' = FALSE
  /\ bpc' = "done"
  /\ UNCHANGED <<kind, pc, docStatus, gmeta, response, docs, vectorResult, loadResult>>
  /\ UNCHANGED <<buildOutcome, jobError, conn, task, totalNodes, totalRelationships,
                 filesProcessed, mergedKeys, relMerged, relMatched, chunkFaults>>
  /\ UNCHANGED <<storeVars, fetchVars, deleteVars, chatVars>>

\* variant: the error of the detached job is reported on the response
JobCatchMarkFailed_Surfaces ==
  /\ bpc = "catch"
  /\ \/ /\ srcStatus' = (IF srcStatus = "none" THEN "none" ELSE "failed")
        /\ failWrite' = "ok"
     \/ /\ srcStatus' = srcStatus
        /\ failWrite' = "failed"
  /\ response' = <<[code |-> 500, status |-> "error"]>>
  /\ bpc' = "done"
  /\ UNCHANGED <<kind, pc, docStatus, vim, collection, gmeta, docs, vectorResult, loadResult>>
  /\ UNCHANGED <<buildOutcome, jobError, conn, task, totalNodes, totalRelationships,
                 filesProcessed, mergedKeys, relMerged, relMatched, chunkFaults>>
  /\ UNCHANGED <<storeVars, fetchVars, deleteVars, chatVars>>

\* catch (error): await Source.findByIdAndUpdate(source._id, {status: "failed"}).catch(log)
JobCatchMarkFailed ==
  /\ bpc = "catch"
  /\ \/ /\ srcStatus' = (IF srcStatus = "none" THEN "none" ELSE "failed")
        /\ failWrite' = "ok"
     \/ /\ srcStatus' = srcStatus
        /\ failWrite' = "failed"
  /\ bpc' = "done"
  /\ UNCHANGED <<kind, pc, docStatus, vim, collection, gmeta, response, docs, vectorResult, loadResult>>
  /\ UNCHANGED <<buildOutcome, jobError, conn, task, totalNodes, totalRelationships,
                 filesProcessed, mergedKeys, relMerged, relMatched, chunkFaults>>
  /\ UNCHANGED <<storeVars, fetchVars, deleteVars, chatVars>>

(***************************************************************************)
(* Specification of one ingestion                                          *)
(***************************************************************************)
InitIngest ==
  /\ kind = "none" /\ pc = "idle" /\ srcStatus = "none" /\ docStatus = "none"
  /\ vim = FALSE /\ collection = FALSE /\ gmeta = <<>> /\ response = <<>>
  /\ docs = <<>> /\ vectorResult = "none" /\ loadResult = "none"
  /\ bpc = "none" /\ buildOutcome = "none" /\ jobError = FALSE /\ conn = "none"
  /\ task = <<>> /\ totalNodes = 0 /\ totalRelationships = 0 /\ filesProcessed = {}
  /\ mergedKeys = {} /\ relMerged = {} /\ relMatched = {} /\ failWrite = "none"
  /\ chunkFaults = 0
  /\ gnodes = {} /\ gedges = {}

InitFetchIdle ==
  /\ fin = <<>> /\ fpc = "none" /\ safeHopDepth = 0 /\ sessions = 0 /\ facts = <<>>

NoCleanup == [vector |-> "none", graph |-> "none"]

InitDeleteIdle ==
  /\ dreq = <<>> /\ dpc = "none" /\ dread = <<>> /\ dresp = <<>>
  /\ dclean = NoCleanup /\ rowFault = FALSE

InitChatIdle ==
  csources = {} /\ cmsgs = 0 /\ ctitle = "old" /\ upd = <<>> /\ snd = <<>>

Init == InitIngest /\ InitFetchIdle /\ InitDeleteIdle /\ InitChatIdle

Next ==
  \/ ReqValidate
  \/ ReqCreateSource
  \/ ReqVectorIndex
  \/ ReqCreateVim
  \/ ReqSaveIndexing
  \/ ReqCloudinary
  \/ ReqSaveUrl
  \/ ReqSpawnAndRespond
  \/ ReqCatchMarkFailed
  \/ ReqRethrow
  \/ BuildInit
  \/ BuildSourceNode
  \/ \E i \in DOMAIN task : TaskFileMerge(i)
  \/ \E i \in DOMAIN task : TaskHasFile(i)
  \/ \E i \in DOMAIN task : TaskExtract(i)
  \/ \E i \in DOMAIN task : TaskEntityMerge(i)
  \/ \E i \in DOMAIN task : TaskMention(i)
  \/ \E i \in DOMAIN task : TaskRelMerge(i)
  \/ BuildClose
  \/ JobCreateGraphMetadata
  \/ JobMarkIndexed
  \/ JobCatchMarkFailed

Spec == Init /\ [][Next]_vars

\* Every pending call of the request and of the detached job eventually
\* returns or raises, and the continuation that awaits it then runs.
SpecLive == Init /\ [][Next]_vars /\ WF_vars(Next)

\* As SpecLive, except that the extraction call of the first chunk may stay
\* pending for ever.
NextButFirstExtract ==
  \/ ReqValidate
  \/ ReqCreateSource
  \/ ReqVectorIndex
  \/ ReqCreateVim
  \/ ReqSaveIndexing
  \/ ReqCloudinary
  \/ ReqSaveUrl
  \/ ReqSpawnAndRespond
  \/ ReqCatchMarkFailed
  \/ ReqRethrow
  \/ BuildInit
  \/ BuildSourceNode
  \/ \E i \in DOMAIN task : TaskFileMerge(i)
  \/ \E i \in DOMAIN task : TaskHasFile(i)
  \/ \E i \in DOMAIN task \ {1} : TaskExtract(i)
  \/ \E i \in DOMAIN task : TaskEntityMerge(i)
  \/ \E i \in DOMAIN task : TaskMention(i)
  \/ \E i \in DOMAIN task : TaskRelMerge(i)
  \/ BuildClose
  \/ JobCreateGraphMetadata
  \/ JobMarkIndexed
  \/ JobCatchMarkFailed

SpecHung == Init /\ [][Next]_vars /\ WF_vars(NextButFirstExtract)

(***************************************************************************)
(* fetchGraphFacts.  Strings that the query inspects are sequences of      *)
(* characters; numbers are kept in half units (v2 = 2 * value) so that     *)
(* non-integers such as 2.5 are inputs; relevance is kept in tenths.       *)
(***************************************************************************)
MaxHopInput == 6     \* numeric hopDepth inputs range over -1, -0.5, ..., 6.5

NaN == [nan |-> TRUE, v2 |-> 0]
Num(v2) == [nan |-> FALSE, v2 |-> v2]

HopInputs ==
  {[t |-> "number", v2 |-> k] : k \in (0 - 2)..(2 * MaxHopInput + 1)}
  \cup {[t |-> "nan"], [t |-> "null"], [t |-> "undefined"]}
  \cup {[t |-> "boolean", b |-> x] : x \in BOOLEAN}
  \cup {[t |-> "string", s |-> x] : x \in {"3", " 4 ", "2.5", "", "abc", "7"}}

\* Number(hopDepth), after the default parameter hopDepth = 2 has been applied
ToNumber(h) ==
  CASE h.t = "number" -> Num(h.v2)
    [] h.t = "nan" -> NaN
    [] h.t = "undefined" -> Num(4)
    [] h.t = "null" -> Num(0)
    [] h.t = "boolean" -> IF h.b THEN Num(2) ELSE Num(0)
    [] h.t = "string" ->
         CASE h.s = "3" -> Num(6)
           [] h.s = " 4 " -> Num(8)
           [] h.s = "2.5" -> Num(5)
           [] h.s = "7" -> Num(14)
           [] h.s = "" -> Num(0)
           [] OTHER -> NaN

MathFloor(x) == IF x.nan THEN NaN ELSE Num((x.v2 \div 2) * 2)
MathMin(a, x) == IF x.nan THEN NaN ELSE Num(IF a < x.v2 THEN a ELSE x.v2)
MathMax(a, x) == IF x.nan THEN NaN ELSE Num(IF a > x.v2 THEN a ELSE x.v2)
\* variant: the lower clamp Math.max(1, ...) is missing
SafeHop_NoLowerClamp(h) == MathMin(10, MathFloor(ToNumber(h)))

\* Math.max(1, Math.min(5, Math.floor(Number(hopDepth))))
SafeHop(h) == MathMax(2, MathMin(10, MathFloor(ToNumber(h))))

\* isNaN(safeHopDepth) || safeHopDepth !== Number(hopDepth)
HopRejected(h) ==
  \/ SafeHop(h).nan
  \/ SafeHop(h).v2 # ToNumber(h).v2

Lower(c) ==
  CASE c = "C" -> "c" [] c = "A" -> "a" [] c = "B" -> "b" [] c = "X" -> "x" [] OTHER -> c

Ord(c) ==
  CASE c = "A" -> 65 [] c = "B" -> 66 [] c = "C" -> 67 [] c = "X" -> 88
    [] c = "a" -> 97 [] c = "b" -> 98 [] c = "c" -> 99 [] c = "k" -> 107
    [] c = "m" -> 109 [] c = "n" -> 110 [] c = "x" -> 120 [] OTHER -> 0

toLower(s) == [i \in 1..Len(s) |-> Lower(s[i])]
StartsWith(s, p) == Len(p) <= Len(s) /\ SubSeq(s, 1, Len(p)) = p
Contains(s, p) == \E i \in 0..(Len(s) - Len(p)) : SubSeq(s, i + 1, i + Len(p)) = p

\* string order of the graph store (by code point)
RECURSIVE StrLess(_, _)
StrLess(s, t) ==
  IF t = <<>> THEN FALSE
  ELSE IF s = <<>> THEN TRUE
  ELSE IF Ord(Head(s)) # Ord(Head(t)) THEN Ord(Head(s)) < Ord(Head(t))
  ELSE StrLess(Tail(s), Tail(t))

\* CASE WHEN toLower(anchor.name) = toLower($query) THEN 0 WHEN ... STARTS WITH ... THEN 1 ELSE 2
MatchClass(n, q) ==
  IF toLower(n.key) = toLower(q) THEN 0
  ELSE IF StartsWith(toLower(n.key), toLower(q)) THEN 1
  ELSE 2

\* variant: every anchor gets the same matchScore
MatchScore_Flat(n, q) == 10 * (3 - 2)

\* ... THEN 3 ... THEN 2 ELSE 1 END AS matchScore (in tenths)
MatchScore(n, q) == 10 * (3 - MatchClass(n, q))

\* MATCH (anchor:Entity) WHERE anchor.sourceId IN $sourceIds AND (name or type CONTAINS query)
Matching(nodes, q, sids) ==
  {n \in nodes : /\ n.label = "Entity"
                 /\ n.sourceId \in sids
                 /\ \/ Contains(toLower(n.key), toLower(q))
                    \/ Contains(toLower(n.type), toLower(q))}

\* variant: ORDER BY anchor.name ASC alone
AnchorBefore_ByName(a, b, q) == ~StrLess(b.key, a.key)

AnchorBefore(a, b, q) ==
  \/ MatchClass(a, q) < MatchClass(b, q)
  \/ MatchClass(a, q) = MatchClass(b, q) /\ ~StrLess(b.key, a.key)

\* ORDER BY CASE ... END, anchor.name ASC
RECURSIVE OrderAnchors(_, _)
OrderAnchors(S, q) ==
  IF S = {} THEN <<>>
  ELSE LET a == CHOOSE x \in S : \A y \in S : AnchorBefore(x, y, q)
       IN <<a>> \o OrderAnchors(S \ {a}, q)

\* LIMIT $anchorLimit
SelectAnchors(nodes, q, sids, limit) ==
  LET all == OrderAnchors(Matching(nodes, q, sids), q)
  IN SubSeq(all, 1, IF Len(all) < limit THEN Len(all) ELSE limit)

Range(f) == {f[i] : i \in DOMAIN f}
NodeById(nodes, id) == CHOOSE n \in nodes : n.id = id
OtherEnd(e, v) == IF e.from = v THEN e.to ELSE e.from

\* one more relationship at the end of each path; a relationship occurs at
\* most once in a path, in either direction
ExtendPaths(P, edges) ==
  {[nodes |-> Append(pe[1].nodes, OtherEnd(pe[2], pe[1].nodes[Len(pe[1].nodes)])),
    rels  |-> Append(pe[1].rels, pe[2])] :
     pe \in {x \in P \X edges :
               /\ x[1].nodes[Len(x[1].nodes)] \in {x[2].from, x[2].to}
               /\ x[2] \notin Range(x[1].rels)}}

RECURSIVE PathsOfLength(_, _, _)
PathsOfLength(a, k, edges) ==
  IF k = 0 THEN {[nodes |-> <<a>>, rels |-> <<>>]}
  ELSE ExtendPaths(PathsOfLength(a, k - 1, edges), edges)
\* variant: the WHERE ALL(...) clause on the nodes of the path is missing
ExpansionPaths_AnySource(a, d, nodes, edges, sids) ==
  {p \in UNION {PathsOfLength(a, k, edges) : k \in 1..d} :
     NodeById(nodes, p.nodes[Len(p.nodes)]).label = "Entity"}

\* variant: the pattern is written with depth d + 1
ExpansionPaths_OffByOne(a, d, nodes, edges, sids) ==
  {p \in UNION {PathsOfLength(a, k, edges) : k \in 1..(d + 1)} :
     /\ NodeById(nodes, p.nodes[Len(p.nodes)]).label = "Entity"
     /\ \A i \in DOMAIN p.nodes : NodeById(nodes, p.nodes[i]).sourceId \in sids}

\* OPTIONAL MATCH path = (anchor)-[rels*1..d]-(neighbor:Entity)
\* WHERE ALL(n IN nodes(path) WHERE n.sourceId IN $sourceIds)
ExpansionPaths(a, d, nodes, edges, sids) ==
  {p \in UNION {PathsOfLength(a, k, edges) : k \in 1..d} :
     /\ NodeById(nodes, p.nodes[Len(p.nodes)]).label = "Entity"
     /\ \A i \in DOMAIN p.nodes : NodeById(nodes, p.nodes[i]).sourceId \in sids}

\* OPTIONAL MATCH (f:File)-[:MENTIONS]->(anchor) WHERE f.sourceId IN $sourceIds
MentioningFiles(a, nodes, edges, sids) ==
  {f \in nodes : /\ f.label = "File" /\ f.sourceId \in sids
                 /\ \E e \in edges : e.type = "MENTIONS" /\ e.from = f.id /\ e.to = a}

NoPath == [nodes |-> <<>>, rels |-> <<>>]

RECURSIVE SetToSeq(_)
SetToSeq(S) ==
  IF S = {} THEN <<>>
  ELSE LET x == CHOOSE y \in S : TRUE IN <<x>> \o SetToSeq(S \ {x})

Reverse(s) == [i \in 1..Len(s) |-> s[Len(s) + 1 - i]]

RECURSIVE Flatten(_)
Flatten(ss) == IF ss = <<>> THEN <<>> ELSE Head(ss) \o Flatten(Tail(ss))

\* the rows of one anchor: one per (path or null) and (file or null)
AnchorRows(a, q, d, nodes, edges, sids) ==
  LET paths == ExpansionPaths(a.id, d, nodes, edges, sids)
      files == MentioningFiles(a.id, nodes, edges, sids)
      ps == IF paths = {} THEN {NoPath} ELSE paths
      fs == IF files = {} THEN {"unknown"} ELSE {f.key : f \in files}
  IN SetToSeq({[anchor |-> a, path |-> x[1], filePath |-> x[2],
                matchScore |-> MatchScore(a, q)] : x \in ps \X fs})

\* result.records; the store fixes no row order: two orders are explored
ResultRecords(in, d, nodes, edges) ==
  LET anchors == SelectAnchors(nodes, in.query, in.sourceIds, in.anchorLimit)
      rows == Flatten([i \in 1..Len(anchors) |->
                         AnchorRows(anchors[i], in.query, d, nodes, edges, in.sourceIds)])
  IN IF in.order = "rev" THEN Reverse(rows) ELSE rows

\* first pass and entity facts: one per anchor, in first-seen order, with
\* the filePath of the first row of that anchor
RECURSIVE EntityFacts(_, _)
EntityFacts(rows, seen) ==
  IF rows = <<>> THEN <<>>
  ELSE LET r == Head(rows) IN
       IF r.anchor.id \in seen THEN EntityFacts(Tail(rows), seen)
       ELSE <<[kind |-> "entity", name |-> r.anchor.key, type |-> r.anchor.type,
               definedIn |-> r.filePath, relevance |-> r.matchScore, above |-> 0,
               node |-> r.anchor.id]>>
            \o EntityFacts(Tail(rows), seen \cup {r.anchor.id})

HopDistancePenalty == 3   \* HOP_DISTANCE_PENALTY = 0.3, in tenths
MinRelevanceScore == 1    \* MIN_RELEVANCE_SCORE = 0.1, in tenths

\* n.properties.name / n.properties.type: only Entity nodes carry them (a
\* File node has path, language and fileType, a Source node id and sourceType)
Undefined == <<"undefined">>
PropName(n) == IF n.label = "Entity" THEN n.key ELSE Undefined
PropType(n) == IF n.label = "Entity" THEN n.type ELSE Undefined

\* 3 * 0.3 evaluates to 0.8999999999999999, so 1 - 3 * 0.3 is
\* 0.10000000000000009, just above MIN_RELEVANCE_SCORE; every other value of
\* matchScore - hopDistance * 0.3 compares as its exact value does
FloatResidue(exact) == IF exact = MinRelevanceScore THEN 1 ELSE 0

\* variant: seenRelations is keyed by start node and type instead of rel.identity
RECURSIVE RowFacts_KeyedByStart(_, _, _, _)
RowFacts_KeyedByStart(r, i, seen, nodes) ==
  IF i > Len(r.path.rels) THEN <<>>
  ELSE LET rel == r.path.rels[i]
           startNode == NodeById(nodes, rel.from)
           endNode == NodeById(nodes, rel.to)
           relevance == r.matchScore - i * HopDistancePenalty
       IN IF \E s \in seen : s.from = rel.from /\ s.type = rel.type
            THEN RowFacts_KeyedByStart(r, i + 1, seen, nodes)
          ELSE <<[kind |-> "relation",
                  subject |-> [name |-> PropName(startNode), type |-> PropType(startNode)],
                  predicate |-> rel.type,
                  object |-> [name |-> PropName(endNode), type |-> PropType(endNode)],
                  relevance |-> IF relevance > MinRelevanceScore
                                  THEN relevance ELSE MinRelevanceScore,
                  above |-> FloatResidue(relevance),
                  edge |-> rel, hop |-> i, anchor |-> r.anchor.id,
                  via |-> r.path.nodes]>>
               \o RowFacts_KeyedByStart(r, i + 1, seen \cup {rel}, nodes)

\* variant: hopDistance is the zero-based index i of the relationship
RECURSIVE RowFacts_ZeroBasedHop(_, _, _, _)
RowFacts_ZeroBasedHop(r, i, seen, nodes) ==
  IF i > Len(r.path.rels) THEN <<>>
  ELSE LET rel == r.path.rels[i]
           startNode == NodeById(nodes, rel.from)
           endNode == NodeById(nodes, rel.to)
           relevance == r.matchScore - (i - 1) * HopDistancePenalty
       IN IF rel \in seen THEN RowFacts_ZeroBasedHop(r, i + 1, seen, nodes)
          ELSE <<[kind |-> "relation",
                  subject |-> [name |-> PropName(startNode), type |-> PropType(startNode)],
                  predicate |-> rel.type,
                  object |-> [name |-> PropName(endNode), type |-> PropType(endNode)],
                  relevance |-> IF relevance > MinRelevanceScore
                                  THEN relevance ELSE MinRelevanceScore,
                  above |-> FloatResidue(relevance),
                  edge |-> rel, hop |-> i, anchor |-> r.anchor.id,
                  via |-> r.path.nodes]>>
               \o RowFacts_ZeroBasedHop(r, i + 1, seen \cup {rel}, nodes)

\* the relationships of one row, from index i on
RECURSIVE RowFacts(_, _, _, _)
RowFacts(r, i, seen, nodes) ==
  IF i > Len(r.path.rels) THEN <<>>
  ELSE LET rel == r.path.rels[i]
           startNode == NodeById(nodes, rel.from)
           endNode == NodeById(nodes, rel.to)
           relevance == r.matchScore - i * HopDistancePenalty
       IN IF rel \in seen THEN RowFacts(r, i + 1, seen, nodes)
          ELSE <<[kind |-> "relation",
                  subject |-> [name |-> PropName(startNode), type |-> PropType(startNode)],
                  predicate |-> rel.type,
                  object |-> [name |-> PropName(endNode), type |-> PropType(endNode)],
                  relevance |-> IF relevance > MinRelevanceScore
                                  THEN relevance ELSE MinRelevanceScore,
                  above |-> FloatResidue(relevance),
                  edge |-> rel, hop |-> i, anchor |-> r.anchor.id,
                  via |-> r.path.nodes]>>
               \o RowFacts(r, i + 1, seen \cup {rel}, nodes)

\* second pass: relation facts, deduplicated through seenRelations
RECURSIVE RelationFacts(_, _, _)
RelationFacts(rows, seen, nodes) ==
  IF rows = <<>> THEN <<>>
  ELSE LET fs == RowFacts(Head(rows), 1, seen, nodes)
       IN fs \o RelationFacts(Tail(rows), seen \cup {fs[i].edge : i \in DOMAIN fs}, nodes)

\* b.relevance - a.relevance <= 0: a is not below b
NotBelow(a, b) ==
  \/ a.relevance > b.relevance
  \/ a.relevance = b.relevance /\ a.above >= b.above

\* variant: an unstable sort that puts a later fact before its equals
RECURSIVE InsertFact_Unstable(_, _)
InsertFact_Unstable(sorted, f) ==
  IF sorted = <<>> THEN <<f>>
  ELSE IF NotBelow(Head(sorted), f) /\ ~NotBelow(f, Head(sorted))
         THEN <<Head(sorted)>> \o InsertFact_Unstable(Tail(sorted), f)
         ELSE <<f>> \o sorted

\* facts.sort((a, b) => b.relevance - a.relevance)  (Array.prototype.sort is stable)
RECURSIVE InsertFact(_, _)
InsertFact(sorted, f) ==
  IF sorted = <<>> THEN <<f>>
  ELSE IF NotBelow(Head(sorted), f)
         THEN <<Head(sorted)>> \o InsertFact(Tail(sorted), f)
         ELSE <<f>> \o sorted

RECURSIVE SortFacts(_, _)
SortFacts(fs, sorted) ==
  IF fs = <<>> THEN sorted ELSE SortFacts(Tail(fs), InsertFact(sorted, Head(fs)))

\* the facts in the order of their facts.push, each tagged with its position
Pushed(rows, nodes) ==
  LET fs == EntityFacts(rows, {}) \o RelationFacts(rows, {}, nodes)
  IN [i \in DOMAIN fs |-> fs[i] @@ [seq |-> i]]

FactsOf(in, d, nodes, edges) ==
  LET rows == ResultRecords(in, d, nodes, edges)
  IN SortFacts(Pushed(rows, nodes), <<>>)

Queries == {<<"c", "a">>, <<"x", "c", "a">>}
SourceIdSets == {{"s1"}, {"s1", "s2"}}
AnchorLimits == {1, 10}

\* validation of hopDepth; then driver.session(...) and session.run(cypher, ...)
FetchCall ==
  /\ fpc = "none"
  /\ \E q \in Queries, sids \in SourceIdSets, lim \in AnchorLimits, h \in HopInputs,
        o \in {"fwd", "rev"} :
       /\ fin' = [query |-> q, sourceIds |-> sids, anchorLimit |-> lim,
                  hopDepth |-> h, order |-> o]
       /\ IF HopRejected(h)
            THEN /\ fpc' = "rejected"
                 /\ UNCHANGED <<safeHopDepth, sessions>>
            ELSE /\ fpc' = "running"
                 /\ safeHopDepth' = SafeHop(h).v2 \div 2
                 /\ sessions' = sessions + 1
  /\ facts' = facts
  /\ UNCHANGED <<ingestVars, buildVars, storeVars, deleteVars, chatVars>>

\* the query returns and the facts are assembled, or the query raises
FetchRun ==
  /\ fpc = "running"
  /\ \/ /\ facts' = FactsOf(fin, safeHopDepth, gnodes, gedges)
        /\ fpc' = "closing"
     \/ /\ facts' = facts
        /\ fpc' = "closingErr"
  /\ UNCHANGED <<fin, safeHopDepth, sessions>>
  /\ UNCHANGED <<ingestVars, buildVars, storeVars, deleteVars, chatVars>>

\* finally { await session.close() }
FetchClose ==
  /\ fpc \in {"closing", "closingErr"}
  /\ \/ fpc' = (IF fpc = "closing" THEN "done" ELSE "failed")
     \/ fpc' = "failed"
  /\ UNCHANGED <<fin, safeHopDepth, sessions, facts>>
  /\ UNCHANGED <<ingestVars, buildVars, storeVars, deleteVars, chatVars>>

(***************************************************************************)
(* Specification of one retrieval over a graph that ingestion left behind  *)
(***************************************************************************)
GNode(label, key, sid, type) ==
  [id |-> <<label, key, sid, 1>>, label |-> label, key |-> key,
   sourceId |-> sid, type |-> type]
GEdge(a, b, type) == [from |-> a.id, to |-> b.id, type |-> type, k |-> 1]

nCa  == GNode("Entity", <<"c", "a">>, "s1", <<"k">>)
nCab == GNode("Entity", <<"C", "a", "b">>, "s1", <<"k">>)
nXca == GNode("Entity", <<"x", "c", "a">>, "s1", <<"k">>)
nM   == GNode("Entity", <<"m">>, "s1", <<"k">>)
nN   == GNode("Entity", <<"n">>, "s1", <<"k">>)
nOther == GNode("Entity", <<"c", "a">>, "s2", <<"k">>)
nFile == GNode("File", <<"f">>, "s1", <<"c">>)

FetchNodes == {nCa, nCab, nXca, nM, nN, nOther, nFile}

FetchEdgePool ==
  {GEdge(nCa, nM, "USES"), GEdge(nM, nN, "USES"), GEdge(nN, nXca, "USES"),
   GEdge(nCab, nCa, "USES"), GEdge(nOther, nM, "USES"), GEdge(nOther, nN, "USES"),
   GEdge(nFile, nCa, "MENTIONS"), GEdge(nFile, nCab, "MENTIONS")}

InitFetch ==
  /\ InitFetchIdle /\ InitDeleteIdle /\ InitChatIdle
  /\ kind = "none" /\ pc = "finished" /\ srcStatus = "none" /\ docStatus = "none"
  /\ vim = FALSE /\ collection = FALSE /\ gmeta = <<>> /\ response = <<>>
  /\ docs = <<>> /\ vectorResult = "none" /\ loadResult = "none"
  /\ bpc = "none" /\ buildOutcome = "none" /\ jobError = FALSE /\ conn = "none"
  /\ task = <<>> /\ totalNodes = 0 /\ totalRelationships = 0 /\ filesProcessed = {}
  /\ mergedKeys = {} /\ relMerged = {} /\ relMatched = {} /\ failWrite = "none"
  /\ chunkFaults = 0
  /\ gnodes = FetchNodes
  /\ gedges \in SUBSET FetchEdgePool

NextFetch ==
  \/ FetchCall
  \/ FetchRun
  \/ FetchClose

SpecFetch == InitFetch /\ [][NextFetch]_vars


(***************************************************************************)
(* Specification of one delete or status request (deleteSource,            *)
(* deleteDocument, getSourceStatus) against the stores as an ingestion     *)
(* left them.  srcStatus = "none" stands for "no Source row with this id"; *)
(* dreq.owned says whether the row's ownerId is the caller.  rowFault      *)
(* records that a metadata-store call of the request raised.               *)
(***************************************************************************)
dS(k) == GNode("Source", SID, "", k)
dA    == GNode("Entity", "A", SID, "Class")
dB    == GNode("Entity", "B", SID, "Module")
dF    == GNode("File", "f1", SID, "code")
dX    == GNode("Entity", "A", "s2", "Class")
dY    == GNode("Entity", "Y", "s2", "Module")
dG    == GNode("File", "f1", "s2", "code")

\* what buildPDFGraph leaves: Source node, Entity nodes, relation edges
PdfGraph  == [nodes |-> {dS("pdf"), dA, dB}, edges |-> {GEdge(dA, dB, "USES")}]
\* what buildGithubRepoGraph leaves: File nodes, HAS_FILE and MENTIONS besides
RepoGraph ==
  [nodes |-> {dS("github_repo"), dA, dB, dF},
   edges |-> {GEdge(dA, dB, "USES"), GEdge(dS("github_repo"), dF, "HAS_FILE"),
              GEdge(dF, dA, "MENTIONS"), GEdge(dF, dB, "MENTIONS")}]
NoGraph   == [nodes |-> {}, edges |-> {}]
\* the graph of another source in the same store
OtherGraph ==
  [nodes |-> {dX, dY, dG},
   edges |-> {GEdge(dX, dY, "USES"), GEdge(dG, dX, "MENTIONS")}]

Handlers == {"deleteSource", "deleteDocument", "getSourceStatus"}

InitDelete ==
  /\ InitFetchIdle /\ InitChatIdle
  /\ \E h \in Handlers, o \in BOOLEAN : dreq = [handler |-> h, owned |-> o]
  /\ dpc = "find" /\ dread = <<>> /\ dresp = <<>>
  /\ dclean = NoCleanup /\ rowFault = FALSE
  /\ srcStatus \in {"none", "uploaded", "indexing", "indexed", "failed"}
  /\ kind \in {"none", "pdf", "github_repo"}
  /\ kind = "none" <=> srcStatus = "none"
  /\ vim \in BOOLEAN
  /\ vim => srcStatus \in {"indexing", "indexed", "failed"}
  /\ srcStatus \in {"indexing", "indexed"} => vim
  /\ collection \in BOOLEAN
  /\ srcStatus = "none" => ~collection
  /\ \E own \in {NoGraph, PdfGraph, RepoGraph} :
       /\ own # NoGraph => vim
       /\ own = PdfGraph => kind = "pdf"
       /\ own = RepoGraph => kind = "github_repo"
       /\ gnodes = own.nodes \cup OtherGraph.nodes
       /\ gedges = own.edges \cup OtherGraph.edges
       /\ gmeta \in {<<>>, <<[entityCount |-> Cardinality({n \in own.nodes : n.label = "Entity"}),
                             relationCount |-> Cardinality({e \in own.edges : e.type = "USES"})]>>}
  /\ gmeta # <<>> => vim
  /\ srcStatus = "indexed" => (vim /\ gmeta # <<>>)
  /\ pc = "finished" /\ docStatus = "none" /\ response = <<>>
  /\ docs = <<>> /\ vectorResult = "none" /\ loadResult = "none"
  /\ bpc = "none" /\ buildOutcome = "none" /\ jobError = FALSE /\ conn = "none"
  /\ task = <<>> /\ totalNodes = 0 /\ totalRelationships = 0 /\ filesProcessed = {}
  /\ mergedKeys = {} /\ relMerged = {} /\ relMatched = {} /\ failWrite = "none"
  /\ chunkFaults = 0

\* what no delete or status handler touches
DeleteFrame ==
  /\ UNCHANGED <<kind, pc, docStatus, response, docs, vectorResult, loadResult>>
  /\ UNCHANGED <<buildVars, fetchVars, chatVars>>

Reply(code, body) == <<[code |-> code, body |-> body]>>

\* Source.findOne({ _id: id, ownerId: userId }) returns a row
Found == srcStatus # "none" /\ dreq.owned

\* variant: the lookup filters on _id only
DelFind_AnyOwner ==
  /\ dreq.handler = "deleteSource" /\ dpc = "find"
  /\ \/ /\ rowFault' = TRUE /\ dresp' = Reply(500, <<>>) /\ dpc' = "done"
     \/ /\ srcStatus = "none" /\ dresp' = Reply(404, <<>>) /\ dpc' = "done"
        /\ UNCHANGED rowFault
     \/ /\ srcStatus # "none" /\ dpc' = "read" /\ UNCHANGED <<dresp, rowFault>>
  /\ UNCHANGED <<srcStatus, vim, collection, gmeta, storeVars, dreq, dread, dclean>>
  /\ DeleteFrame

\* deleteSource: const source = await Source.findOne({_id, ownerId});
\* if (!source) throw new ApiError(404, ...)
DelFind ==
  /\ dreq.handler = "deleteSource" /\ dpc = "find"
  /\ \/ /\ rowFault' = TRUE /\ dresp' = Reply(500, <<>>) /\ dpc' = "done"
     \/ /\ ~Found /\ dresp' = Reply(404, <<>>) /\ dpc' = "done"
        /\ UNCHANGED rowFault
     \/ /\ Found /\ dpc' = "read" /\ UNCHANGED <<dresp, rowFault>>
  /\ UNCHANGED <<srcStatus, vim, collection, gmeta, storeVars, dreq, dread, dclean>>
  /\ DeleteFrame

\* deleteSource: [vectorMetadata, graphMetadata] = await Promise.all([findOne, findOne])
DelRead ==
  /\ dreq.handler = "deleteSource" /\ dpc = "read"
  /\ \/ /\ dread' = [vim |-> vim, gm |-> gmeta # <<>>]
        /\ dpc' = "delSource"
        /\ UNCHANGED <<dresp, rowFault>>
     \/ /\ rowFault' = TRUE /\ dresp' = Reply(500, <<>>) /\ dpc' = "done"
        /\ UNCHANGED dread
  /\ UNCHANGED <<srcStatus, vim, collection, gmeta, storeVars, dreq, dclean>>
  /\ DeleteFrame

\* deleteSource: await Source.deleteOne({ _id: id, ownerId: userId })
DelSourceRow ==
  /\ dreq.handler = "deleteSource" /\ dpc = "delSource"
  /\ \/ /\ srcStatus' = "none" /\ dpc' = "delRows"
        /\ UNCHANGED <<dresp, rowFault>>
     \/ /\ rowFault' = TRUE /\ dresp' = Reply(500, <<>>) /\ dpc' = "done"
        /\ UNCHANGED srcStatus
  /\ UNCHANGED <<vim, collection, gmeta, storeVars, dreq, dread, dclean>>
  /\ DeleteFrame

\* deleteSource: await Promise.all([VectorIndexMetadata.deleteOne, GraphMetadata.deleteOne]);
\* both calls are issued, the first rejection rejects the await
DelMetaRows ==
  /\ dreq.handler = "deleteSource" /\ dpc = "delRows"
  /\ \E vOk \in BOOLEAN, gOk \in BOOLEAN :
       /\ vim' = (IF vOk THEN FALSE ELSE vim)
       /\ gmeta' = (IF gOk THEN <<>> ELSE gmeta)
       /\ IF vOk /\ gOk
            THEN dpc' = "cleanup" /\ UNCHANGED <<dresp, rowFault>>
            ELSE rowFault' = TRUE /\ dresp' = Reply(500, <<>>) /\ dpc' = "done"
  /\ UNCHANGED <<srcStatus, collection, storeVars, dreq, dread, dclean>>
  /\ DeleteFrame

\* deleteSource: cleanupTasks.push(deleteQdrantCollection(...).catch(log)) if
\* (vectorMetadata?.collectionName); push(deleteGraphBySourceId(id).catch(log))
\* if (graphMetadata)
DelDispatch ==
  /\ dreq.handler = "deleteSource" /\ dpc = "cleanup"
  /\ dclean' = [vector |-> IF dread.vim THEN "pending" ELSE "none",
                graph  |-> IF dread.gm THEN "pending" ELSE "none"]
  /\ dpc' = "settle"
  /\ UNCHANGED <<srcStatus, vim, collection, gmeta, storeVars, dreq, dread, dresp, rowFault>>
  /\ DeleteFrame

Settled(st) == st \in {"none", "ok", "raised"}

\* deleteSource: await Promise.allSettled(cleanupTasks); return res.status(200)
DelRespond ==
  /\ dreq.handler = "deleteSource" /\ dpc = "settle"
  /\ Settled(dclean.vector) /\ Settled(dclean.graph)
  /\ dresp' = Reply(200, <<>>)
  /\ dpc' = "done"
  /\ UNCHANGED <<srcStatus, vim, collection, gmeta, storeVars, dreq, dread, dclean, rowFault>>
  /\ DeleteFrame

\* variant: the rejection of deleteQdrantCollection reaches the handler
CleanVector_Propagate ==
  /\ dclean.vector = "pending"
  /\ \/ /\ collection' = FALSE /\ dclean' = [dclean EXCEPT !.vector = "ok"]
        /\ UNCHANGED <<dpc, dresp>>
     \/ /\ collection' = collection /\ dclean' = [dclean EXCEPT !.vector = "raised"]
        /\ dresp' = Reply(500, <<>>) /\ dpc' = "done"
  /\ UNCHANGED <<srcStatus, vim, gmeta, storeVars, dreq, dread, rowFault>>
  /\ DeleteFrame

\* deleteQdrantCollection: await client.deleteCollection(collectionName); a
\* failure is rethrown as ApiError(500) and logged by the caller's .catch
CleanVector ==
  /\ dclean.vector = "pending"
  /\ \/ /\ collection' = FALSE /\ dclean' = [dclean EXCEPT !.vector = "ok"]
     \/ /\ collection' = collection /\ dclean' = [dclean EXCEPT !.vector = "raised"]
  /\ UNCHANGED <<srcStatus, vim, gmeta, storeVars, dreq, dpc, dread, dresp, rowFault>>
  /\ DeleteFrame

\* deleteGraphBySourceId: neo4jGraph = await Neo4jGraph.initialize(...)
CleanGraphInit ==
  /\ dclean.graph = "pending"
  /\ \/ dclean' = [dclean EXCEPT !.graph = "query"]
     \/ dclean' = [dclean EXCEPT !.graph = "raised"]
  /\ UNCHANGED <<srcStatus, vim, collection, gmeta, storeVars, dreq, dpc, dread, dresp, rowFault>>
  /\ DeleteFrame

\* MATCH (n:Entity { sourceId: $sourceId }) DETACH DELETE n
DetachDelete(nodes, edges, sid) ==
  LET gone == {n \in nodes : n.label = "Entity" /\ n.sourceId = sid} IN
  [nodes |-> nodes \ gone,
   edges |-> {e \in edges : \A n \in gone : e.from # n.id /\ e.to # n.id}]

\* deleteGraphBySourceId: await neo4jGraph.query(query, { sourceId })
CleanGraphQuery ==
  /\ dclean.graph = "query"
  /\ \/ /\ gnodes' = DetachDelete(gnodes, gedges, SID).nodes
        /\ gedges' = DetachDelete(gnodes, gedges, SID).edges
        /\ dclean' = [dclean EXCEPT !.graph = "closeOk"]
     \/ /\ UNCHANGED storeVars
        /\ dclean' = [dclean EXCEPT !.graph = "closeErr"]
  /\ UNCHANGED <<srcStatus, vim, collection, gmeta, dreq, dpc, dread, dresp, rowFault>>
  /\ DeleteFrame

\* deleteGraphBySourceId: finally { await neo4jGraph.close() }; a throwing
\* close replaces the function's outcome
CleanGraphClose ==
  /\ dclean.graph \in {"closeOk", "closeErr"}
  /\ \/ dclean' = [dclean EXCEPT !.graph = IF dclean.graph = "closeOk" THEN "ok" ELSE "raised"]
     \/ dclean' = [dclean EXCEPT !.graph = "raised"]
  /\ UNCHANGED <<srcStatus, vim, collection, gmeta, storeVars, dreq, dpc, dread, dresp, rowFault>>
  /\ DeleteFrame

\* deleteDocument: source = await Source.findOneAndDelete({_id, ownerId, sourceType: "pdf"});
\* if (!source) throw new ApiError(404, ...)
DocFindAndDelete ==
  /\ dreq.handler = "deleteDocument" /\ dpc = "find"
  /\ \/ /\ rowFault' = TRUE /\ dresp' = Reply(500, <<>>) /\ dpc' = "done"
        /\ UNCHANGED srcStatus
     \/ /\ ~(Found /\ kind = "pdf")
        /\ dresp' = Reply(404, <<>>) /\ dpc' = "done"
        /\ UNCHANGED <<srcStatus, rowFault>>
     \/ /\ Found /\ kind = "pdf"
        /\ srcStatus' = "none" /\ dpc' = "docVim"
        /\ UNCHANGED <<dresp, rowFault>>
  /\ UNCHANGED <<vim, collection, gmeta, storeVars, dreq, dread, dclean>>
  /\ DeleteFrame

\* deleteDocument: vectorMetadata = await VectorIndexMetadata.findOneAndDelete(...);
\* a rejection lands in the outer catch, which logs; otherwise
\* deleteQdrantCollection is called if (vectorMetadata && vectorMetadata.collectionName)
DocVimRow ==
  /\ dreq.handler = "deleteDocument" /\ dpc = "docVim"
  /\ \/ /\ dread' = [vim |-> vim, gm |-> FALSE]
        /\ vim' = FALSE
        /\ dclean' = [dclean EXCEPT !.vector = IF vim THEN "pending" ELSE "none"]
        /\ dpc' = "docGm"
        /\ UNCHANGED rowFault
     \/ /\ rowFault' = TRUE
        /\ dpc' = "docRespond"
        /\ UNCHANGED <<vim, dread, dclean>>
  /\ UNCHANGED <<srcStatus, collection, gmeta, storeVars, dreq, dresp>>
  /\ DeleteFrame

\* deleteDocument: await GraphMetadata.findOneAndDelete(...).catch(log); then
\* deleteGraphBySourceId(source._id).catch(log) is called
DocGmRow ==
  /\ dreq.handler = "deleteDocument" /\ dpc = "docGm"
  /\ Settled(dclean.vector)
  /\ \/ gmeta' = <<>> /\ UNCHANGED rowFault
     \/ gmeta' = gmeta /\ rowFault' = TRUE
  /\ dclean' = [dclean EXCEPT !.graph = "pending"]
  /\ dpc' = "docGraph"
  /\ UNCHANGED <<srcStatus, vim, collection, storeVars, dreq, dread, dresp>>
  /\ DeleteFrame

\* deleteDocument: return res.status(200), after the try block or its catch
DocRespond ==
  /\ dreq.handler = "deleteDocument"
  /\ \/ dpc = "docGraph" /\ Settled(dclean.graph)
     \/ dpc = "docRespond"
  /\ dresp' = Reply(200, <<>>)
  /\ dpc' = "done"
  /\ UNCHANGED <<srcStatus, vim, collection, gmeta, storeVars, dreq, dread, dclean, rowFault>>
  /\ DeleteFrame

\* getSourceStatus: const source = await Source.findOne({_id, ownerId});
\* if (!source) throw new ApiError(404, ...); the handler keeps the document
\* it read, so the status it reports is the one stored at this step
StatusFind ==
  /\ dreq.handler = "getSourceStatus" /\ dpc = "find"
  /\ \/ /\ rowFault' = TRUE /\ dresp' = Reply(500, <<>>) /\ dpc' = "done"
        /\ UNCHANGED dread
     \/ /\ ~Found /\ dresp' = Reply(404, <<>>) /\ dpc' = "done"
        /\ UNCHANGED <<rowFault, dread>>
     \/ /\ Found /\ dpc' = "statusVim"
        /\ dread' = [status |-> srcStatus, vim |-> FALSE, gm |-> FALSE]
        /\ UNCHANGED <<dresp, rowFault>>
  /\ UNCHANGED <<srcStatus, vim, collection, gmeta, storeVars, dreq, dclean>>
  /\ DeleteFrame

\* getSourceStatus: const vectorMetadata = await VectorIndexMetadata.findOne({sourceId: id})
StatusVim ==
  /\ dreq.handler = "getSourceStatus" /\ dpc = "statusVim"
  /\ \/ /\ dread' = [dread EXCEPT !.vim = vim]
        /\ dpc' = "statusRead"
        /\ UNCHANGED <<dresp, rowFault>>
     \/ /\ rowFault' = TRUE /\ dresp' = Reply(500, <<>>) /\ dpc' = "done"
        /\ UNCHANGED dread
  /\ UNCHANGED <<srcStatus, vim, collection, gmeta, storeVars, dreq, dclean>>
  /\ DeleteFrame

\* getSourceStatus: const graphMetadata = await GraphMetadata.findOne({sourceId: id});
\* the 200 response with source.status, vector.ready = !!vectorMetadata,
\* graph.ready = !!graphMetadata and the counts
StatusRespond ==
  /\ dreq.handler = "getSourceStatus" /\ dpc = "statusRead"
  /\ \/ /\ dread' = [dread EXCEPT !.gm = gmeta # <<>>]
        /\ dresp' = Reply(200, <<[status |-> dread.status, sourceType |-> kind,
                                  vectorReady |-> dread.vim, graphReady |-> gmeta # <<>>,
                                  counts |-> gmeta]>>)
        /\ UNCHANGED rowFault
     \/ /\ rowFault' = TRUE /\ dresp' = Reply(500, <<>>)
        /\ UNCHANGED dread
  /\ dpc' = "done"
  /\ UNCHANGED <<srcStatus, vim, collection, gmeta, storeVars, dreq, dclean>>
  /\ DeleteFrame

NextDelete ==
  \/ DelFind
  \/ DelRead
  \/ DelSourceRow
  \/ DelMetaRows
  \/ DelDispatch
  \/ DelRespond
  \/ CleanVector
  \/ CleanGraphInit
  \/ CleanGraphQuery
  \/ CleanGraphClose
  \/ DocFindAndDelete
  \/ DocVimRow
  \/ DocGmRow
  \/ DocRespond
  \/ StatusFind
  \/ StatusVim
  \/ StatusRespond

SpecDelete == InitDelete /\ [][NextDelete]_vars

(***************************************************************************)
(* Specification of a delete request for a source whose detached graph     *)
(* build is in flight.  It starts where ReqSpawnAndRespond leaves an       *)
(* ingestion (status indexing, 202 sent, the job at Neo4jGraph.initialize) *)
(* and interleaves the steps of the job with the steps of deleteSource /   *)
(* deleteDocument at their awaits.                                         *)
(***************************************************************************)
RaceChunks == 2

InitRace ==
  /\ InitFetchIdle /\ InitChatIdle
  /\ kind \in Kinds
  /\ pc = "finished" /\ srcStatus = StatusOnVectorOk /\ docStatus = StatusOnVectorOk
  /\ vim = TRUE /\ collection = TRUE /\ gmeta = <<>>
  /\ response = <<[code |-> 202, status |-> StatusOnVectorOk]>>
  /\ \E n \in 1..RaceChunks : docs = DocsOf(n)
  /\ vectorResult = "ok" /\ loadResult = "ok"
  /\ bpc = "init" /\ buildOutcome = "none" /\ jobError = FALSE /\ conn = "none"
  /\ task = <<>> /\ totalNodes = 0 /\ totalRelationships = 0 /\ filesProcessed = {}
  /\ mergedKeys = {} /\ relMerged = {} /\ relMatched = {} /\ failWrite = "none"
  /\ chunkFaults = 0
  /\ gnodes = {} /\ gedges = {}
  /\ \E h \in {"deleteSource", "deleteDocument"} : dreq = [handler |-> h, owned |-> TRUE]
  /\ dpc = "find" /\ dread = <<>> /\ dresp = <<>>
  /\ dclean = NoCleanup /\ rowFault = FALSE

NextRace ==
  \/ BuildInit
  \/ BuildSourceNode
  \/ \E i \in DOMAIN task : TaskFileMerge(i)
  \/ \E i \in DOMAIN task : TaskHasFile(i)
  \/ \E i \in DOMAIN task : TaskExtract(i)
  \/ \E i \in DOMAIN task : TaskEntityMerge(i)
  \/ \E i \in DOMAIN task : TaskMention(i)
  \/ \E i \in DOMAIN task : TaskRelMerge(i)
  \/ BuildClose
  \/ JobCreateGraphMetadata
  \/ JobMarkIndexed
  \/ JobCatchMarkFailed
  \/ DelFind
  \/ DelRead
  \/ DelSourceRow
  \/ DelMetaRows
  \/ DelDispatch
  \/ DelRespond
  \/ CleanVector
  \/ CleanGraphInit
  \/ CleanGraphQuery
  \/ CleanGraphClose
  \/ DocFindAndDelete
  \/ DocVimRow
  \/ DocGmRow
  \/ DocRespond

SpecRace == InitRace /\ [][NextRace]_vars

(***************************************************************************)
(* Specification of one ingestion and one getSourceStatus request of the   *)
(* owner for the source being ingested, interleaved at their awaits.       *)
(***************************************************************************)
InitWatch ==
  /\ InitIngest /\ InitFetchIdle /\ InitChatIdle
  /\ dreq = [handler |-> "getSourceStatus", owned |-> TRUE]
  /\ dpc = "find" /\ dread = <<>> /\ dresp = <<>>
  /\ dclean = NoCleanup /\ rowFault = FALSE

NextWatch ==
  \/ Next
  \/ StatusFind
  \/ StatusVim
  \/ StatusRespond

SpecWatch == InitWatch /\ [][NextWatch]_vars

(***************************************************************************)
(* Specification of one ingestion into a graph store that already holds    *)
(* the graph of another source, "s2", whose entity names overlap with the  *)
(* names the extraction service returns for this source: an Entity "A"     *)
(* (a name this build merges) and an Entity "C" (a name this build only    *)
(* meets as the target of a relationship).                                 *)
(***************************************************************************)
oS == GNode("Source", "s2", "", "pdf")
oA == GNode("Entity", "A", "s2", "Person")
oC == GNode("Entity", "C", "s2", "Place")
oF == GNode("File", "f1", "s2", "text")

SharedGraph ==
  [nodes |-> {oS, oA, oC, oF},
   edges |-> {GEdge(oA, oC, "USES"), GEdge(oS, oF, "HAS_FILE"), GEdge(oF, oA, "MENTIONS")}]

InitShared ==
  /\ InitFetchIdle /\ InitDeleteIdle /\ InitChatIdle
  /\ kind = "none" /\ pc = "idle" /\ srcStatus = "none" /\ docStatus = "none"
  /\ vim = FALSE /\ collection = FALSE /\ gmeta = <<>> /\ response = <<>>
  /\ docs = <<>> /\ vectorResult = "none" /\ loadResult = "none"
  /\ bpc = "none" /\ buildOutcome = "none" /\ jobError = FALSE /\ conn = "none"
  /\ task = <<>> /\ totalNodes = 0 /\ totalRelationships = 0 /\ filesProcessed = {}
  /\ mergedKeys = {} /\ relMerged = {} /\ relMatched = {} /\ failWrite = "none"
  /\ chunkFaults = 0
  /\ gnodes = SharedGraph.nodes /\ gedges = SharedGraph.edges

SpecShared == InitShared /\ [][Next]_vars

(***************************************************************************)
(* Specification of one updateChatSession request and one sendMessage      *)
(* request on the same chat session, interleaved at their awaits.          *)
(***************************************************************************)
OwnedSources == {"s1", "s2"}     \* Source rows whose ownerId is the caller
ForeignSource == "s3"            \* a Source row of another user

\* req.body of the PATCH: sources absent (<<>>) or an array of ids, title or none
UpdateBodies ==
  {[sources |-> srcs, title |-> t] :
     srcs \in {<<>>} \cup {<<S>> : S \in SUBSET (OwnedSources \cup {ForeignSource})},
     t \in BOOLEAN}

InitChat ==
  /\ InitIngest /\ InitFetchIdle /\ InitDeleteIdle
  /\ csources \in SUBSET OwnedSources
  /\ cmsgs \in {0, 2}
  /\ ctitle = "old"
  /\ \E b \in UpdateBodies, o \in BOOLEAN :
       upd = [pc |-> "load", body |-> b, owner |-> o, loaded |-> {}, merged |-> {},
              notified |-> "none", resp |-> <<>>]
  /\ \E o \in BOOLEAN : snd = [pc |-> "load", owner |-> o, resp |-> <<>>]

ChatFrame == UNCHANGED <<ingestVars, buildVars, storeVars, fetchVars, deleteVars>>

\* updateChatSession: chatSession = await ChatSession.findById(chatId); 403 unless
\* chatSession.userId is the caller; the sources branch is taken
\* if (sources && Array.isArray(sources))
UpdLoad ==
  /\ upd # <<>> /\ upd.pc = "load"
  /\ upd' = IF ~upd.owner
              THEN [upd EXCEPT !.pc = "done", !.resp = <<403>>]
              ELSE [upd EXCEPT !.loaded = csources,
                               !.pc = IF upd.body.sources # <<>> THEN "count" ELSE "save"]
  /\ UNCHANGED <<csources, cmsgs, ctitle, snd>>
  /\ ChatFrame

\* updateChatSession: messageCount = await ChatMessage.countDocuments({ chatId });
\* if (messageCount > 0) throw new ApiError(400, ...)
UpdCount ==
  /\ upd # <<>> /\ upd.pc = "count"
  /\ upd' = IF cmsgs > 0
              THEN [upd EXCEPT !.pc = "done", !.resp = <<400>>]
              ELSE [upd EXCEPT !.pc = "find"]
  /\ UNCHANGED <<csources, cmsgs, ctitle, snd>>
  /\ ChatFrame

\* updateChatSession: sourceRecords = await Source.find({_id: {$in: sources}, ownerId});
\* 400 if (sourceRecords.length !== sources.length); chatSession.sources = mergedSources
UpdFind ==
  /\ upd # <<>> /\ upd.pc = "find"
  /\ LET asked == upd.body.sources[1]
         sourceRecords == asked \cap OwnedSources
         newSourceIds == asked \ upd.loaded
     IN upd' = IF Cardinality(sourceRecords) # Cardinality(asked)
                 THEN [upd EXCEPT !.pc = "done", !.resp = <<400>>]
                 ELSE [upd EXCEPT !.merged = upd.loaded \cup asked,
                                  !.pc = IF newSourceIds # {} THEN "notify" ELSE "save"]
  /\ UNCHANGED <<csources, cmsgs, ctitle, snd>>
  /\ ChatFrame

\* updateChatSession: try { await memoryClient.add(...) } catch { log }
UpdNotify ==
  /\ upd # <<>> /\ upd.pc = "notify"
  /\ \E r \in {"ok", "failed"} : upd' = [upd EXCEPT !.notified = r, !.pc = "save"]
  /\ UNCHANGED <<csources, cmsgs, ctitle, snd>>
  /\ ChatFrame

\* updateChatSession: chatSession.title = title.trim(); await chatSession.save();
\* the document's modified paths are written; 200 with the updated session
UpdSave ==
  /\ upd # <<>> /\ upd.pc = "save"
  /\ \/ /\ csources' = (IF upd.body.sources # <<>> THEN upd.merged ELSE csources)
        /\ ctitle' = (IF upd.body.title THEN "new" ELSE ctitle)
        /\ upd' = [upd EXCEPT !.pc = "done", !.resp = <<200>>]
     \/ /\ UNCHANGED <<csources, ctitle>>
        /\ upd' = [upd EXCEPT !.pc = "done", !.resp = <<500>>]
  /\ UNCHANGED <<cmsgs, snd>>
  /\ ChatFrame

\* sendMessage: chatSession = await ChatSession.findById(chatId).populate(...); 403
\* unless chatSession.userId is the caller
SndLoad ==
  /\ snd # <<>> /\ snd.pc = "load"
  /\ snd' = IF snd.owner THEN [snd EXCEPT !.pc = "create"]
                         ELSE [snd EXCEPT !.pc = "done", !.resp = <<403>>]
  /\ UNCHANGED <<csources, cmsgs, ctitle, upd>>
  /\ ChatFrame

\* sendMessage: userMessage = await ChatMessage.create({chatId, role: "user", content})
SndCreate ==
  /\ snd # <<>> /\ snd.pc = "create"
  /\ \/ /\ cmsgs' = cmsgs + 1
        /\ snd' = [snd EXCEPT !.pc = "rag"]
     \/ /\ cmsgs' = cmsgs
        /\ snd' = [snd EXCEPT !.pc = "done", !.resp = <<500>>]
  /\ UNCHANGED <<csources, ctitle, upd>>
  /\ ChatFrame

\* sendMessage: responseStream = await runChatRAG(...); a throw before the
\* headers are sent becomes ApiError(500)
SndRag ==
  /\ snd # <<>> /\ snd.pc = "rag"
  /\ \/ snd' = [snd EXCEPT !.pc = "stream"]
     \/ snd' = [snd EXCEPT !.pc = "done", !.resp = <<500>>]
  /\ UNCHANGED <<csources, cmsgs, ctitle, upd>>
  /\ ChatFrame

\* sendMessage: nodeStream.on("end"): if (fullResponse.trim()) the assistant
\* message is created (a failure is logged); nodeStream.on("error"): 500
SndEnd ==
  /\ snd # <<>> /\ snd.pc = "stream"
  /\ \/ /\ cmsgs' = cmsgs + 1
        /\ snd' = [snd EXCEPT !.pc = "done", !.resp = <<200>>]
     \/ /\ cmsgs' = cmsgs
        /\ snd' = [snd EXCEPT !.pc = "done", !.resp = <<200>>]
     \/ /\ cmsgs' = cmsgs
        /\ snd' = [snd EXCEPT !.pc = "done", !.resp = <<500>>]
  /\ UNCHANGED <<csources, ctitle, upd>>
  /\ ChatFrame

NextChat ==
  \/ UpdLoad
  \/ UpdCount
  \/ UpdFind
  \/ UpdNotify
  \/ UpdSave
  \/ SndLoad
  \/ SndCreate
  \/ SndRag
  \/ SndEnd

SpecChat == InitChat /\ [][NextChat]_vars

(***************************************************************************)
(* Properties                                                              *)
(***************************************************************************)
AllowedStatusChanges ==
  {<<"uploaded", "indexing">>, <<"indexing", "indexed">>,
   <<"indexing", "failed">>, <<"uploaded", "failed">>}

\* C1: a source is created with status uploaded; every later change of
\* Source.status is uploaded->indexing, indexing->indexed, indexing->failed
\* or uploaded->failed; once the status is indexed or failed it never
\* changes again and no indexing step (vector indexing, graph build) runs.
C1_StatusMachine ==
  [][ /\ (srcStatus = "none" /\ srcStatus' # "none") => srcStatus' = "uploaded"
      /\ (srcStatus # "none" /\ srcStatus' # srcStatus)
           => <<srcStatus, srcStatus'>> \in AllowedStatusChanges
      /\ srcStatus \in {"indexed", "failed"}
           => /\ srcStatus' = srcStatus
              /\ bpc' = bpc
              /\ task' = task
              /\ vectorResult' = vectorResult
              /\ collection' = collection ]_vars

C1_Witness == srcStatus = "indexed" /\ bpc = "done" /\ pc = "finished"

C3_SuccessResponse ==
  /\ (response # <<>> /\ response[1].code = 202)
       => /\ vectorResult = "ok"
          /\ vim
          /\ collection
          /\ response[1].status = "indexing"
  /\ vectorResult = "failed" => (response = <<>> \/ response[1].code # 202)

C3_Witness == response # <<>> /\ response[1].code = 202 /\ bpc = "init"

\* C4: the success response is sent in the step that spawns the graph
\* build, before any step of the build; once sent the response never
\* changes, whatever the build and the recording of its outcome do.
C4_ResponseDetached ==
  [][ /\ response # <<>> => response' = response
      /\ (response = <<>> /\ response' # <<>> /\ response'[1].code = 202)
           => (bpc = "none" /\ bpc' \in {"init", "catch"} /\ srcStatus' = "indexing")
      /\ bpc # "none" => (response # <<>> /\ response[1].code = 202) ]_vars

C4_Witness ==
  /\ bpc = "done" /\ buildOutcome = "threw" /\ failWrite = "failed"
  /\ srcStatus = "indexing"
  /\ response = <<[code |-> 202, status |-> "indexing"]>>

RECURSIVE SumOver(_, _)
SumOver(S, f) ==
  IF S = {} THEN 0
  ELSE LET x == CHOOSE y \in S : TRUE IN f[x] + SumOver(S \ {x}, f)

FailedChunks == {i \in DOMAIN task : task[i].outcome \in {"extractFailed", "persistFailed"}}
OkChunks == {i \in DOMAIN task : task[i].outcome = "ok"}

\* what a chunk whose task ran to its end adds to the counters
ChunkNodes(i) == Len(normalizedNodes(docs[i]))
ChunkRels(i) ==
  IF ChunkNodes(i) = 0 THEN 0 ELSE Len(normalizedRelationships(docs[i]))

\* C5 (as stated, and only for builds in which nothing but the chunk
\* fails): when the job is over and a chunk raised, the source is indexed
\* and the persisted counts are those of the other chunks.
C5_Original ==
  (bpc = "done" /\ FailedChunks # {} /\ ~jobError)
    => /\ srcStatus = "indexed"
       /\ gmeta = <<[entityCount |-> SumOver(OkChunks, [i \in OkChunks |-> ChunkNodes(i)]),
                     relationCount |-> SumOver(OkChunks, [i \in OkChunks |-> ChunkRels(i)])]>>

\* C5 (amended): a chunk that raises does not stop the others: when
\* build*Graph has returned every chunk task has run, every chunk that did
\* not raise is fully persisted, and nodesAdded / relationshipsAdded count
\* the other chunks plus the merges the failing chunk completed before its
\* error; unless a job-level step fails, the build returns normally, the
\* counts are stored in GraphMetadata and the source ends indexed.
C5_ChunkIsolation ==
  /\ buildOutcome = "returned"
       => /\ \A i \in DOMAIN task : task[i].st = "done"
          /\ \A i \in OkChunks : task[i].ni = ChunkNodes(i) /\ task[i].ri = ChunkRels(i)
          /\ totalNodes =
               SumOver(DOMAIN task, [i \in DOMAIN task |->
                         IF i \in OkChunks THEN ChunkNodes(i) ELSE task[i].ni])
          /\ totalRelationships =
               SumOver(DOMAIN task, [i \in DOMAIN task |->
                         IF i \in OkChunks THEN ChunkRels(i) ELSE task[i].ri])
  /\ (bpc = "done" /\ ~jobError)
       => /\ buildOutcome = "returned"
          /\ srcStatus = "indexed"
          /\ gmeta = <<[entityCount |-> totalNodes, relationCount |-> totalRelationships]>>

C5_Witness ==
  /\ bpc = "done" /\ srcStatus = "indexed" /\ Len(docs) >= 3
  /\ \E i \in DOMAIN task : task[i].outcome = "persistFailed" /\ task[i].ni > 0
  /\ gmeta # <<>> /\ gmeta[1].entityCount > 0

\* C6: at most 3 chunk tasks of a build are in flight at any time.
C6_Window == Active(task) <= 3

C6_Witness == Active(task) = 3 /\ \E i \in DOMAIN task : task[i].st = "queued"

\* C7: the graph store holds exactly one Entity node for every
\* (name, sourceId) key that was merged.
C7_OneEntityPerKey ==
  \A name \in mergedKeys : Cardinality(EntityNodes(gnodes, name, SID)) = 1

EdgesOfKey(key) ==
  {e \in gedges : /\ e.type = key[3]
                  /\ \E a \in EntityNodes(gnodes, key[1], SID) : e.from = a.id
                  /\ \E b \in EntityNodes(gnodes, key[2], SID) : e.to = b.id}

\* the chunks whose task ran to its end and issued the merge of relationship key
EmittedBy(key) ==
  {i \in OkChunks :
     /\ ChunkNodes(i) > 0
     /\ \E n \in DOMAIN normalizedRelationships(docs[i]) :
          LET r == normalizedRelationships(docs[i])[n]
          IN key = <<r.source, r.target, relTypeOf(r.type)>>}

\* C8 (as stated): when the build is over, for every relationship
\* (from, to, type) that several chunks emitted (and while every entity key
\* has a single node) the store holds exactly one edge of that type between
\* the entities of these names.
C8_Original ==
  (bpc = "done" /\ C7_OneEntityPerKey)
    => \A key \in relMerged :
         Cardinality(EmittedBy(key)) >= 2 => Cardinality(EdgesOfKey(key)) = 1

\* C8 (amended): the store never holds more than one edge of a type from a
\* given from-node to a given to-node, however often the relationship is
\* merged; a relationship merged while both endpoint entities existed has
\* its edge; a relationship whose endpoint has no Entity node creates none.
C8_OneEdgePerPair ==
  /\ \A e \in gedges : Cardinality({x \in gedges : x.from = e.from /\ x.to = e.to
                                                  /\ x.type = e.type}) = 1
  /\ \A key \in relMatched : EdgesOfKey(key) # {}
  /\ \A key \in relMerged \ relMatched :
       (EntityNodes(gnodes, key[1], SID) = {} \/ EntityNodes(gnodes, key[2], SID) = {})
         => EdgesOfKey(key) = {}

C8_Witness ==
  \E i, j \in DOMAIN task :
    /\ i < j
    /\ task[i].outcome = "ok" /\ task[j].outcome = "ok"
    /\ task[i].ri >= 1 /\ task[j].ri >= 1
    /\ normalizedRelationships(docs[i])[1] = normalizedRelationships(docs[j])[1]
    /\ LET r == normalizedRelationships(docs[i])[1]
           key == <<r.source, r.target, relTypeOf(r.type)>>
       IN key \in relMatched /\ Cardinality(EdgesOfKey(key)) = 1

\* hopDepth is a JavaScript number holding an integer of [1,5] (or is omitted)
IsIntegerHop(h) ==
  \/ h.t = "undefined"
  \/ h.t = "number" /\ h.v2 % 2 = 0 /\ (h.v2 \div 2) \in 1..5

\* the numeric value of hopDepth is an integer of [1,5]
HasIntegerValue(h) ==
  LET n == ToNumber(h) IN ~n.nan /\ n.v2 % 2 = 0 /\ (n.v2 \div 2) \in 1..5

RECURSIVE Ball(_, _)
Ball(S, k) ==
  IF k = 0 THEN S
  ELSE LET B == Ball(S, k - 1)
       IN B \cup {OtherEnd(e, v) : <<e, v>> \in {x \in gedges \X B : x[2] \in {x[1].from, x[1].to}}}

AnchorIds == {facts[i].node : i \in {j \in DOMAIN facts : facts[j].kind = "entity"}}
RelationFactIdx == {i \in DOMAIN facts : facts[i].kind = "relation"}

\* C10: every relation fact is an edge of the graph that lies on a path of
\* at most safeHopDepth edges from a selected anchor (its nearer endpoint
\* is within safeHopDepth - 1 of the anchor), and no node farther than
\* safeHopDepth from every anchor appears in a fact.
C10_WithinHops ==
  fpc = "done"
    => \A i \in RelationFactIdx :
         LET e == facts[i].edge IN
         /\ e \in gedges
         /\ facts[i].subject.name = PropName(NodeById(gnodes, e.from))
         /\ facts[i].object.name = PropName(NodeById(gnodes, e.to))
         /\ \E a \in AnchorIds : {e.from, e.to} \cap Ball({a}, safeHopDepth - 1) # {}
         /\ {e.from, e.to} \subseteq Ball(AnchorIds, safeHopDepth)

C10_Witness ==
  /\ fpc = "done" /\ safeHopDepth = 2
  /\ \E i \in RelationFactIdx : facts[i].hop = 2
  /\ \E e \in gedges :
       /\ \A i \in RelationFactIdx : facts[i].edge # e
       /\ {e.from, e.to} \cap Ball(AnchorIds, 2) # {}
       /\ ~({e.from, e.to} \subseteq Ball(AnchorIds, 2))

SourceIdOf(id) == NodeById(gnodes, id).sourceId

\* C11: every fact of a call with sourceIds = S refers only to nodes of
\* S: the anchor of every entity fact, and the anchor, both endpoints and
\* every node of the contributing path of every relation fact.
C11_SourceScoped ==
  fpc = "done"
    => \A i \in DOMAIN facts :
         IF facts[i].kind = "entity"
           THEN SourceIdOf(facts[i].node) \in fin.sourceIds
           ELSE /\ SourceIdOf(facts[i].anchor) \in fin.sourceIds
                /\ SourceIdOf(facts[i].edge.from) \in fin.sourceIds
                /\ SourceIdOf(facts[i].edge.to) \in fin.sourceIds
                /\ \A k \in DOMAIN facts[i].via :
                     SourceIdOf(facts[i].via[k]) \in fin.sourceIds

\* a call scoped to s1 over a graph in which an entity of s2 matches the
\* query and links two s1 nodes that the expansion reaches
C11_Witness ==
  /\ fpc = "done" /\ fin.sourceIds = {"s1"} /\ fin.query = <<"c", "a">>
  /\ safeHopDepth >= 3
  /\ {GEdge(nOther, nM, "USES"), GEdge(nOther, nN, "USES"), GEdge(nCa, nM, "USES")}
       \subseteq gedges
  /\ \E i \in RelationFactIdx : facts[i].edge = GEdge(nCa, nM, "USES")
  /\ \A i \in RelationFactIdx : facts[i].edge.from # nOther.id

\* C12: the returned facts are in descending order of relevance, facts of
\* equal relevance are in the order in which they were pushed, and the
\* pushes are the entity facts in anchor (first-row) order followed by the
\* relation facts in the order their edges were first met in the rows.
C12_SortedStable ==
  fpc = "done"
    => /\ \A i, j \in DOMAIN facts :
            i < j => /\ NotBelow(facts[i], facts[j])
                     /\ NotBelow(facts[j], facts[i]) => facts[i].seq < facts[j].seq
       /\ \A i, j \in DOMAIN facts :
            (facts[i].kind = "entity" /\ facts[j].kind = "relation")
              => facts[i].seq < facts[j].seq
       /\ LET rows == ResultRecords(fin, safeHopDepth, gnodes, gedges)
              firstRow(a) == CHOOSE k \in DOMAIN rows :
                               /\ rows[k].anchor.id = a
                               /\ \A m \in 1..(k - 1) : rows[m].anchor.id # a
          IN \A i, j \in DOMAIN facts :
               (facts[i].kind = "entity" /\ facts[j].kind = "entity"
                  /\ facts[i].seq < facts[j].seq)
                 => firstRow(facts[i].node) < firstRow(facts[j].node)

\* two facts of equal relevance, and a relation fact ranked above an entity fact
C12_Witness ==
  /\ fpc = "done"
  /\ \E i, j \in DOMAIN facts :
       i < j /\ facts[i].relevance = facts[j].relevance /\ facts[i].above = facts[j].above
  /\ \E i, j \in DOMAIN facts :
       i < j /\ facts[i].kind = "relation" /\ facts[j].kind = "entity"
  /\ \E i, j \in DOMAIN facts :
       i < j /\ facts[i].relevance = facts[j].relevance /\ facts[i].above > facts[j].above

EntityFactIdx == {i \in DOMAIN facts : facts[i].kind = "entity"}

\* the names of the entity facts, in the order in which they are returned
RECURSIVE EntityNames(_)
EntityNames(fs) ==
  IF fs = <<>> THEN <<>>
  ELSE IF Head(fs).kind = "entity" THEN <<Head(fs).name>> \o EntityNames(Tail(fs))
  ELSE EntityNames(Tail(fs))

\* C13: among the entity facts of one call, an anchor whose name equals the
\* query comes before one whose name only starts with it, which comes
\* before one that only contains it (case-insensitively); for the query
\* "ca" over the entities ca, Cab and xca of one source the entity facts are
\* in exactly that order.
C13_ExactPrefixContains ==
  fpc = "done"
    => /\ \A i, j \in EntityFactIdx :
            MatchClass(NodeById(gnodes, facts[i].node), fin.query)
              < MatchClass(NodeById(gnodes, facts[j].node), fin.query)
            => i < j
       /\ (fin.query = <<"c", "a">> /\ fin.sourceIds = {"s1"} /\ fin.anchorLimit >= 3)
            => EntityNames(facts) = <<nCa.key, nCab.key, nXca.key>>

\* the three anchors, returned by the store in the opposite order, with
\* relation facts ranked between their entity facts
C13_Witness ==
  /\ fpc = "done" /\ fin.query = <<"c", "a">> /\ fin.order = "rev"
  /\ fin.sourceIds = {"s1"}
  /\ Cardinality(EntityFactIdx) = 3
  /\ \E i \in EntityFactIdx, j \in RelationFactIdx, k \in EntityFactIdx : i < j /\ j < k

\* C17: once build*Graph has thrown, the Source row, the VectorIndexMetadata
\* row and the vector collection are still there, no GraphMetadata row
\* exists, and the status is indexing until the catch block has written
\* failed (or has failed to write it).
C17_BuildFailureFrame ==
  buildOutcome = "threw"
    => /\ srcStatus \in {"indexing", "failed"}
       /\ vim
       /\ collection
       /\ gmeta = <<>>
       /\ bpc # "done" => srcStatus = "indexing"
       /\ bpc = "done" => srcStatus = (IF failWrite = "ok" THEN "failed" ELSE "indexing")

\* a build that threw after chunks had been persisted, recorded as failed
C17_Witness ==
  /\ bpc = "done" /\ buildOutcome = "threw" /\ srcStatus = "failed"
  /\ \E n \in gnodes : n.label = "Entity"

\* C18: a GraphMetadata row exists only after build*Graph has returned,
\* never while the build runs or after it threw, and it exists whenever
\* the status is indexed.
C18_GraphMetadataAfterBuild ==
  /\ gmeta # <<>> => (buildOutcome = "returned" /\ bpc \in {"mark", "catch", "done"})
  /\ bpc \in {"init", "srcnode", "chunks", "closing", "returned"} => gmeta = <<>>
  /\ buildOutcome = "threw" => gmeta = <<>>
  /\ srcStatus = "indexed" => gmeta # <<>>

\* the row is written and the status is still indexing
C18_Witness == bpc = "mark" /\ gmeta # <<>> /\ srcStatus = "indexing"

\* C19: after a request whose input could not be loaded or split, no
\* Source row, no VectorIndexMetadata row, no vector collection and no
\* graph node exists.
C19_NoWriteOnBadInput ==
  (loadResult = "failed" /\ pc = "finished")
    => (srcStatus = "none" /\ ~vim /\ ~collection /\ gnodes = {})

RowsAbsent == srcStatus = "none" /\ ~vim /\ gmeta = <<>>

\* C14: a delete whose vector-collection cleanup or graph cleanup raised,
\* and whose metadata-store calls all worked, is answered 200 and leaves
\* no Source, VectorIndexMetadata or GraphMetadata row.
C14_CleanupFailureTolerated ==
  (/\ dpc = "done" /\ ~rowFault
   /\ (dclean.vector = "raised" \/ dclean.graph = "raised"))
    => (dresp = Reply(200, <<>>) /\ RowsAbsent)

\* deleteSource of a source whose collection was already gone, both
\* cleanups raising
C14_Witness ==
  /\ dreq.handler = "deleteSource" /\ dpc = "done" /\ ~rowFault
  /\ dclean.vector = "raised" /\ dclean.graph = "raised" /\ ~collection
  /\ dresp = Reply(200, <<>>)

\* C15: a finished delete request in which a metadata-store call raised
\* is not answered 200, and one that is answered 200 leaves none of the
\* three rows behind.
C15_RowRemovalReported ==
  (dpc = "done" /\ dreq.handler \in {"deleteSource", "deleteDocument"})
    => /\ rowFault => dresp # Reply(200, <<>>)
       /\ dresp = Reply(200, <<>>) => RowsAbsent

\* C16: once deleteGraphBySourceId(SID) has returned ok, no Entity or File
\* node of SID is left, every edge joins two nodes that are left, and the
\* other source's nodes and edges are all there.
C16_SubgraphRemoved ==
  dclean.graph = "ok"
    => /\ ~ \E n \in gnodes : n.label \in {"Entity", "File"} /\ n.sourceId = SID
       /\ \A e \in gedges : \E a \in gnodes, b \in gnodes : e.from = a.id /\ e.to = b.id
       /\ OtherGraph.nodes \subseteq gnodes
       /\ OtherGraph.edges \subseteq gedges

\* C20: a request whose lookup finds no row of the caller (no such id, or
\* another owner) ends in its first step, is answered 404 unless the
\* lookup itself raised, removes no row and starts no cleanup.
C20_NotFoundFrame ==
  [][(dpc = "find" /\ ~Found)
       => /\ UNCHANGED <<srcStatus, vim, gmeta, collection, gnodes, gedges>>
          /\ dclean' = NoCleanup
          /\ dpc' = "done"
          /\ ~rowFault' => dresp' = Reply(404, <<>>)]_vars

\* a fully indexed source of another owner, asked to be deleted
C20_Witness ==
  /\ dreq.handler \in {"deleteSource", "deleteDocument"} /\ ~dreq.owned
  /\ dpc = "done" /\ dresp = Reply(404, <<>>)
  /\ srcStatus = "indexed" /\ vim /\ gmeta # <<>> /\ collection
  /\ dA \in gnodes

\* the relationships on the expansion paths of the anchors the query selects
SelectedAnchorIds ==
  LET as == SelectAnchors(gnodes, fin.query, fin.sourceIds, fin.anchorLimit)
  IN {as[i].id : i \in DOMAIN as}
EdgesOnPaths ==
  UNION {Range(p.rels) :
           p \in UNION {ExpansionPaths(a, safeHopDepth, gnodes, gedges, fin.sourceIds) :
                          a \in SelectedAnchorIds}}

\* C21: the relation facts of a finished call are in one-to-one
\* correspondence with the relationships that lie on an in-scope expansion
\* path of a selected anchor.
C21_OneFactPerEdge ==
  fpc = "done"
    => /\ \A e \in EdgesOnPaths : Cardinality({i \in RelationFactIdx : facts[i].edge = e}) = 1
       /\ \A i \in RelationFactIdx : facts[i].edge \in EdgesOnPaths

\* a call with two anchors that both reach the edge m-n, which is also on
\* several paths of one anchor
C21_Witness ==
  /\ fpc = "done" /\ safeHopDepth >= 3
  /\ {nCa.id, nXca.id} \subseteq SelectedAnchorIds
  /\ {GEdge(nCa, nM, "USES"), GEdge(nM, nN, "USES"), GEdge(nN, nXca, "USES")} \subseteq gedges
  /\ Cardinality({i \in RelationFactIdx : facts[i].edge = GEdge(nM, nN, "USES")}) = 1

\* 3, 2, 1 in tenths, from the anchor's name alone
ScoreOfName(id) ==
  LET name == toLower(NodeById(gnodes, id).key)
      q == toLower(fin.query)
  IN IF name = q THEN 30 ELSE IF StartsWith(name, q) THEN 20 ELSE 10

\* C22: in the facts of a finished call, an entity fact has relevance 3, 2
\* or 1 by the match of its anchor's name; a relation fact was taken at
\* position h >= 1 of a path starting at a selected anchor and has
\* relevance max(0.1, m - 0.3 * h) for that anchor's score m, which is at
\* least 0.1 and below m (relevance in tenths).
C22_RelevanceFormula ==
  fpc = "done"
    => /\ \A i \in EntityFactIdx :
            /\ facts[i].node \in SelectedAnchorIds
            /\ facts[i].relevance = ScoreOfName(facts[i].node)
       /\ \A i \in RelationFactIdx :
            LET f == facts[i]
                m == ScoreOfName(f.anchor)
                h == f.hop
            IN /\ f.anchor \in SelectedAnchorIds
               /\ h >= 1 /\ h <= safeHopDepth /\ h < Len(f.via)
               /\ f.via[1] = f.anchor
               /\ {f.edge.from, f.edge.to} = {f.via[h], f.via[h + 1]}
               /\ f.relevance = (IF m - 3 * h > 1 THEN m - 3 * h ELSE 1)
               /\ f.relevance >= 1
               /\ f.relevance < m

\* a relation fact held at the floor (contains-match anchor, hop 4) next to
\* one above it (hop 1 of the same anchor)
C22_Witness ==
  /\ fpc = "done"
  /\ \E i \in RelationFactIdx, j \in RelationFactIdx :
       /\ facts[i].anchor = nXca.id /\ facts[i].hop = 4 /\ facts[i].relevance = 1
       /\ facts[j].anchor = nXca.id /\ facts[j].hop = 1 /\ facts[j].relevance = 7

\* C23: after a delete request that is answered 200, none of whose
\* metadata-store calls raised, a vector collection of the source is left
\* only if its deletion was attempted and raised, whether or not a
\* VectorIndexMetadata row existed.
C23_CollectionCleanupWithoutRow ==
  (/\ dreq.handler \in {"deleteSource", "deleteDocument"}
   /\ dpc = "done" /\ dresp = Reply(200, <<>>) /\ ~rowFault)
    => (collection => dclean.vector = "raised")

\* a node of the source of the build: an Entity or File node with its
\* sourceId, or the Source node with its id
OfBuild(n) ==
  \/ n.label \in {"Entity", "File"} /\ n.sourceId = SID
  \/ n.label = "Source" /\ n.key = SID

\* C24 as stated: nodes and relationships all have the sourceId property
C24_Original ==
  /\ \A n \in gnodes : n.label \in {"Entity", "File"} => n.sourceId = SID
  /\ \A e \in gedges : "sourceId" \in DOMAIN e

\* C24: every Entity and File node in the store has the sourceId of the
\* build; a relationship has no sourceId of its own and joins two nodes of
\* the build's source.
C24_SourceIdCarried ==
  /\ \A n \in gnodes : OfBuild(n)
  /\ \A e \in gedges :
       /\ "sourceId" \notin DOMAIN e
       /\ \E a \in gnodes, b \in gnodes : a.id = e.from /\ b.id = e.to

\* a finished repository build that wrote File and Entity nodes and the
\* three kinds of relationship
C24_Witness ==
  /\ bpc = "done" /\ kind = "github_repo"
  /\ \E n \in gnodes : n.label = "File"
  /\ \E n \in gnodes : n.label = "Entity"
  /\ \E e \in gedges : e.type = "HAS_FILE"
  /\ \E e \in gedges : e.type = "MENTIONS"
  /\ \E e \in gedges : e.type \notin {"HAS_FILE", "MENTIONS"}

\* C25: while the chat has a message, no step changes the sources stored
\* in the chat session.
C25_SourcesFrozen == [][cmsgs > 0 => csources' = csources]_vars

\* the request removed the Source row
SourceRemoved == kind # "none" /\ srcStatus = "none"
\* a VectorIndexMetadata row (hence a recorded collection) existed
VectorDue == vim \/ (dread # <<>> /\ dread.vim)
\* deleteSource cleans the graph of a source with a GraphMetadata row,
\* deleteDocument that of every source
GraphDue ==
  \/ dreq.handler = "deleteDocument"
  \/ gmeta # <<>>
  \/ (dread # <<>> /\ dread.gm)

\* C30: when a delete request that removed the Source row has ended, each
\* external cleanup that was due has been attempted, whatever happened to
\* the other cleanup and to the removal of the metadata rows.
C30_CleanupsIndependent ==
  (/\ dreq.handler \in {"deleteSource", "deleteDocument"}
   /\ dpc = "done" /\ SourceRemoved)
    => /\ VectorDue => dclean.vector \in {"ok", "raised"}
       /\ GraphDue => dclean.graph \in {"ok", "raised"}

\* C26: a step that takes the stored status from indexing to failed is the
\* catch block of the detached job, and a request that ends while the
\* stored status is indexing has started the detached job.
C26_OnlyBuildFails ==
  [][/\ (srcStatus = "indexing" /\ srcStatus' = "failed")
          => (bpc = "catch" /\ bpc' = "done")
     /\ (srcStatus = "indexing" /\ pc # "finished" /\ pc' = "finished")
          => bpc' # "none"]_vars

\* C29: under SpecLive, a stored status of indexing is eventually
\* followed by indexed or failed.
C29_EventuallySettled == (srcStatus = "indexing") ~> (srcStatus \in {"indexed", "failed"})

\* how far a chunk task has come: before, at, after the extraction call
Stage(t) ==
  CASE t.st \in {"queued", "file", "hasfile"} -> 0
    [] t.st = "extract" -> 1
    [] OTHER -> 2

\* the task of chunk i has not called the extraction yet
BeforeExtraction(i) == bpc = "chunks" /\ i \in DOMAIN task /\ Stage(task[i]) = 0
\* the extraction call of chunk i is pending
ExtractionPending(i) == i \in DOMAIN task /\ task[i].st = "extract"
\* buildGithubRepoGraph: the File merge before the extraction raised
SkippedAtFile(i) ==
  /\ kind = "github_repo" /\ i \in DOMAIN task
  /\ task[i].st = "done" /\ task[i].outcome = "persistFailed" /\ task[i].ni = 0

\* a chunk waits only while the window is full, and a task never goes
\* back to or before its extraction call
QueueDiscipline ==
  /\ [](bpc = "chunks" /\ (\E i \in DOMAIN task : task[i].st = "queued")
          => Active(task) = Concurrency)
  /\ [][\A i \in DOMAIN task :
          i \in DOMAIN task' =>
            /\ Stage(task'[i]) >= Stage(task[i])
            /\ Stage(task[i]) = 2 => task'[i].st # "extract"]_vars

\* C27 as stated: every chunk's extraction is eventually invoked
C27_Original ==
  \A i \in 1..MaxChunks : BeforeExtraction(i) ~> ExtractionPending(i)

\* C27: chunks wait only while the window is full; the extraction of a
\* chunk is invoked at most once and never again after it returned or
\* raised; in a PDF build every chunk's extraction is eventually invoked,
\* in a repository build unless the File merge ahead of it raised.
C27_ExtractedOnce ==
  /\ QueueDiscipline
  /\ \A i \in 1..MaxChunks :
       BeforeExtraction(i) ~> (ExtractionPending(i) \/ SkippedAtFile(i))

\* the fourth chunk waits while three extraction calls are pending
C27_Witness ==
  /\ bpc = "chunks" /\ Len(task) = 4
  /\ task[4].st = "queued"
  /\ \A i \in 1..3 : task[i].st = "extract"

\* the task of chunk i has run to its end
TaskDone(i) == i \in DOMAIN task /\ task[i].st = "done"
\* the extraction call of chunk i has returned or raised
ReturnedOrRaised(i) == i \in DOMAIN task /\ Stage(task[i]) = 2

\* C28: under SpecHung the extraction call of the first chunk may stay
\* pending for ever.  Every other chunk of the job still runs to its end
\* through the remaining slots; the build waits for the pending call and
\* for nothing else, so once that call has returned or raised the job
\* finishes, and it finishes with status indexed unless a step of the job
\* outside the chunks raised.
C28_HungCallOneSlot ==
  /\ \A j \in 2..MaxChunks :
       (bpc = "chunks" /\ j \in DOMAIN task) ~> TaskDone(j)
  /\ (bpc = "chunks" /\ ReturnedOrRaised(1)) ~> (bpc = "done")
  /\ [](ExtractionPending(1) => bpc = "chunks")
  /\ [](bpc = "done" /\ ~jobError => srcStatus = "indexed")

\* all chunks but the first are done while the first extraction is pending
C28_Witness ==
  /\ bpc = "chunks" /\ Len(task) = MaxChunks
  /\ ExtractionPending(1)
  /\ \A j \in 2..MaxChunks : TaskDone(j) /\ task[j].outcome = "ok"

\* Entity or File nodes of the source are in the graph store
SubgraphPresent == \E n \in gnodes : n.label \in {"Entity", "File"} /\ n.sourceId = SID

\* C31: when a delete request has been answered 200 after every call to
\* the metadata store returned, and the graph store
\* still holds Entity or File nodes of the source, the deletion of the
\* source's subgraph has been attempted (it returned or raised), whatever
\* the status of the source and whether or not a GraphMetadata row existed.
C31_SubgraphDeletionAttempted ==
  (/\ dreq.handler \in {"deleteSource", "deleteDocument"}
   /\ dpc = "done" /\ dresp = Reply(200, <<>>) /\ ~rowFault
   /\ SubgraphPresent)
    => dclean.graph \in {"ok", "raised"}

\* the delete request has been answered 200 and none of its calls to the
\* metadata store raised
DeleteReturned == dpc = "done" /\ dresp = Reply(200, <<>>) /\ ~rowFault
\* Entity and File nodes of the source in a graph store
OwnNodes(nodes) == {n \in nodes : n.label \in {"Entity", "File"} /\ n.sourceId = SID}

\* C32: under SpecRace, once the delete request has been answered 200 no
\* step creates a GraphMetadata row or an Entity or File node of the
\* source, and the Source row stays absent.
C32_DeleteFinal ==
  [][DeleteReturned =>
       /\ gmeta = <<>> => gmeta' = <<>>
       /\ OwnNodes(gnodes') \subseteq OwnNodes(gnodes)
       /\ srcStatus = "none" => srcStatus' = "none"]_vars

\* HAS_FILE edges from a Source node of the source to a File node of the path
HasFileEdges(path) ==
  {e \in gedges : /\ e.type = "HAS_FILE"
                  /\ \E a \in SourceNodes(gnodes, SID) : e.from = a.id
                  /\ \E f \in FileNodes(gnodes, path, SID) : e.to = f.id}

\* the task of chunk i is writing, or has written, entities and MENTIONS edges
WritesEntities(i) == task[i].st \in {"entity", "mention", "rel"} \/ task[i].ni > 0

\* a chunk task writes entities and MENTIONS edges only while a File node
\* of its path exists
FileBeforeEntities ==
  \A i \in DOMAIN task :
    WritesEntities(i) => FileNodes(gnodes, docs[i].path, SID) # {}

\* C33: in a repository build, every path whose File and HAS_FILE merges
\* completed has exactly one File node and exactly one HAS_FILE edge from
\* the Source node, and a chunk task writes entities and MENTIONS edges
\* only while a File node of its path exists.
C33_OneFilePerPath ==
  kind = "github_repo"
    => /\ \A path \in filesProcessed :
            /\ Cardinality(FileNodes(gnodes, path, SID)) = 1
            /\ Cardinality(HasFileEdges(path)) = 1
       /\ FileBeforeEntities

\* the relationship edges between entities that the build wrote
BuiltRelations ==
  {e \in gedges \ SharedGraph.edges : e.type \notin {"HAS_FILE", "MENTIONS"}}

\* C34: under SpecShared, every relationship edge the build wrote goes from
\* an Entity node of the build's source to an Entity node of the build's
\* source, both present in the store; a relationship naming an entity that
\* only another source has creates no edge.
C34_EdgesWithinSource ==
  \A e \in BuiltRelations :
    /\ \E a \in gnodes : a.id = e.from /\ a.label = "Entity" /\ a.sourceId = SID
    /\ \E b \in gnodes : b.id = e.to /\ b.label = "Entity" /\ b.sourceId = SID

\* the relationship B -> C has been merged while this source has an entity
\* B and only the other source has an entity C
C34_Witness ==
  /\ <<"B", "C", "DEPENDS_ON">> \in relMerged
  /\ EntityNodes(gnodes, "B", SID) # {}
  /\ EntityNodes(gnodes, "C", SID) = {} /\ oC \in gnodes
  /\ BuiltRelations # {}

\* the Entity nodes the store holds for the source
StoredEntities == {n \in gnodes : n.label = "Entity" /\ n.sourceId = SID}
\* the relationship edges the store holds between entities of the source
StoredRelations ==
  {e \in gedges : /\ e.type \notin {"HAS_FILE", "MENTIONS"}
                  /\ \E a \in StoredEntities : e.from = a.id}

\* C35: after a build in which no chunk raised and no entity key was
\* merged into two nodes, the counts persisted in GraphMetadata are the
\* number of Entity nodes and the number of relationship edges that the
\* store holds for the source.
C35_CountsMatchStore ==
  (bpc = "done" /\ gmeta # <<>> /\ FailedChunks = {} /\ C7_OneEntityPerKey)
    => /\ gmeta[1].entityCount = Cardinality(StoredEntities)
       /\ gmeta[1].relationCount = Cardinality(StoredRelations)

\* C36: under SpecShared, every node and edge of the other source stays as
\* it was (the type of its nodes included), no edge written by the build
\* touches a node of the other source, and an entity of a name both
\* sources have is a node of its own.
C36_OtherSourceUntouched ==
  /\ {n \in gnodes : n.sourceId = "s2" \/ n.key = "s2"} = SharedGraph.nodes
  /\ SharedGraph.edges \subseteq gedges
  /\ \A e \in gedges \ SharedGraph.edges :
       \A n \in SharedGraph.nodes : e.from # n.id /\ e.to # n.id
  /\ \A a \in EntityNodes(gnodes, "A", SID) : a.id # oA.id

\* the build has merged an entity A of its own, twice and with another
\* type, next to the entity A of the other source
C36_Witness ==
  /\ bpc = "done" /\ srcStatus = "indexed"
  /\ \E a \in EntityNodes(gnodes, "A", SID) : a.type = "Concept"
  /\ oA \in gnodes
  /\ \E i, j \in OkChunks : i # j /\ docs[i].nodes # <<>> /\ docs[j].nodes # <<>>
                              /\ docs[i].nodes[1].id = "A" /\ docs[j].nodes[1].id = "A"

\* the body of a 200 answer of getSourceStatus
StatusBody == dresp[1].body[1]

InScopeMatches == Matching(gnodes, fin.query, fin.sourceIds)

\* C38: a call that returned holds one entity fact per selected anchor:
\* the anchors of the entity facts are distinct matching entities, there
\* are as many as match, up to anchorLimit, and no matching entity left
\* out has a better match class than a selected one.
C38_TopAnchors ==
  fpc = "done"
    => /\ AnchorIds \subseteq {n.id : n \in InScopeMatches}
       /\ Cardinality(EntityFactIdx) = Cardinality(AnchorIds)
       /\ Cardinality(EntityFactIdx) <= fin.anchorLimit
       /\ Cardinality(EntityFactIdx) =
            IF Cardinality(InScopeMatches) < fin.anchorLimit
              THEN Cardinality(InScopeMatches) ELSE fin.anchorLimit
       /\ \A m \in InScopeMatches : \A id \in AnchorIds :
            m.id \notin AnchorIds
              => MatchClass(m, fin.query) >= MatchClass(NodeById(gnodes, id), fin.query)

\* three entities match, one is selected, and its rows gave relation facts
C38_Witness ==
  /\ fpc = "done" /\ fin.anchorLimit = 1
  /\ Cardinality(InScopeMatches) = 3
  /\ AnchorIds = {nCa.id}
  /\ Cardinality(RelationFactIdx) >= 2

\* what a fact says: its subject and its relevance
FactContent(f) ==
  IF f.kind = "entity"
    THEN <<"entity", f.name, f.type, f.relevance, f.above>>
    ELSE <<"relation", f.edge, f.relevance, f.above>>

\* the facts the same call returns when the store yields the rows in the
\* other order
OtherOrderFacts ==
  FactsOf([fin EXCEPT !.order = IF @ = "fwd" THEN "rev" ELSE "fwd"],
          safeHopDepth, gnodes, gedges)

\* C39: the facts of a call that returned, and the relevance of each, are
\* those the call returns when the store yields its rows in the other order.
C39_RowOrderIndependent ==
  fpc = "done"
    => {FactContent(facts[i]) : i \in DOMAIN facts}
         = {FactContent(OtherOrderFacts[i]) : i \in DOMAIN OtherOrderFacts}

\* build*Graph is running: from Neo4jGraph.initialize to the finally block
InsideBuild == bpc \in {"init", "srcnode", "chunks", "closing"}
\* build*Graph has returned or thrown
BuildLeft == bpc \in {"returned", "mark", "catch", "done"}

\* the connection is closed only once every chunk task has run to its end
ClosedAfterTasks == conn = "closed" => (BuildLeft /\ AllTasksDone)

\* C40 as stated: once build*Graph has returned or thrown, a connection it
\* opened is closed, and the connection is closed only after every chunk
\* task has run to its end.
C40_Original ==
  /\ (BuildLeft /\ conn # "none") => conn = "closed"
  /\ ClosedAfterTasks

\* C40: build*Graph leaves only through the finally block: the step by
\* which it returns or throws after the connection was opened is the call
\* of close(), which closes the connection or raises; when it raises the
\* connection stays open and build*Graph throws, also where it would have
\* returned.  The connection is closed only after every chunk task has run
\* to its end.
C40_ClosedOnExit ==
  /\ [](ClosedAfterTasks)
  /\ []((BuildLeft /\ conn = "open") => (buildOutcome = "threw" /\ jobError))
  /\ []((InsideBuild /\ bpc # "init") => conn = "open")
  /\ [][(InsideBuild /\ conn = "open" /\ BuildLeft')
          => \/ conn' = "closed"
             \/ conn' = "open" /\ bpc' = "catch" /\ buildOutcome' = "threw"]_vars

\* the Source-node query raised and the finally block closed the connection
C40_Witness ==
  /\ BuildLeft /\ conn = "closed" /\ buildOutcome = "threw" /\ task = <<>>

====
